---- MODULE Spec2Model ----
(***************************************************************************)
(* Trade-up opportunity discovery of CSTA: the price validator with its    *)
(* persistent ValidationRecord store, the probability model and the        *)
(* opportunity ranker of ComprehensiveTradeUpFinder.                       *)
(*                                                                         *)
(* Money is counted in cents, time in days.  Python floats are modelled as *)
(* exact rationals (integer numerators over integer denominators), so      *)
(* rounding of the last binary digit is not represented.  Python's None is *)
(* the integer -1 where a number is expected.                              *)
(***************************************************************************)
EXTENDS Integers, Sequences, FiniteSets, TLC

VARIABLES
    record,     \* comprehensive_skins validation columns, per market_hash_name
    clock,      \* CURRENT_TIMESTAMP of the database, in days
    lastOp,     \* the operation that produced the current state
    passLog,    \* what the last _validate_prices pass did, per item
    call,       \* the arguments of the call under study
    ret,        \* what that call returned
    oracle,     \* the Price Oracle's quote per market_hash_name (None: no quote)
    steam_market,   \* what Steam replies to a price request, per market_hash_name
    cached_prices,  \* ComprehensiveTradeUpFinder._cached_prices (None: no such key)
    cursor,     \* the configuration find_profitable_trades evaluates next
    skipped,    \* find_profitable_trades: results skipped for the offset
    opportunities,  \* find_profitable_trades: results collected so far
    errors,     \* find_profitable_trades: the configurations whose error was logged
    passes,     \* the _validate_prices coroutines in flight, each with its position
    rate_limiter,   \* a RateLimiter, the coroutines inside acquire() and the wall clock
    pricing_client  \* a RuntimePricingClient: its oracle price cache, its call in flight, the wall clock

storeVars == <<record, clock, lastOp, passLog>>
callVars == <<call, ret>>
finderVars ==
    <<oracle, steam_market, cached_prices, cursor, skipped, opportunities, errors, passes>>
clientVars == <<rate_limiter, pricing_client>>
vars == <<record, clock, lastOp, passLog, call, ret,
          oracle, steam_market, cached_prices, cursor, skipped, opportunities, errors,
          passes, rate_limiter, pricing_client>>

None == -1

(***************************************************************************)
(* Bounds of the model.                                                    *)
(***************************************************************************)
MaxDay == 8

(***************************************************************************)
(* Program constants.                                                      *)
(***************************************************************************)
MIN_PRICE == 3
RETRIES == 3
TOLERANCE_PERCENT == 20
FRESH_DAYS == 7

(***************************************************************************)
(* RuntimePricingClient.is_price_reasonable: the per-rarity ceiling.       *)
(***************************************************************************)
MaxPrices(rarity) ==
    CASE rarity = "Consumer Grade"   -> 300
      [] rarity = "Industrial Grade" -> 1000
      [] rarity = "Mil-Spec Grade"   -> 2500
      [] rarity = "Restricted"       -> 10000
      [] rarity = "Classified"       -> 30000
      [] rarity = "Covert"           -> 100000
      [] OTHER                       -> 5000

IsPriceReasonable(price, rarity) ==
    ~(price < MIN_PRICE \/ price > MaxPrices(rarity))

(***************************************************************************)
(* RuntimePricingClient.get_steam_market_price.  replies is what the       *)
(* Steam endpoint answers to the successive requests; the result is the    *)
(* price (or None) and the number of requests issued.                      *)
(***************************************************************************)
Reply(kind, price) == [kind |-> kind, price |-> price]

RECURSIVE SteamAttempt(_, _, _)
SteamAttempt(replies, attempt, retries) ==
    IF attempt >= retries
    THEN [price |-> None, requests |-> attempt]
    ELSE LET r == replies[attempt + 1] IN
         IF r.kind \in {"429", "non200"}
         THEN IF attempt < retries - 1
              THEN SteamAttempt(replies, attempt + 1, retries)
              ELSE [price |-> None, requests |-> attempt + 1]
         ELSE IF r.kind \in {"median", "lowest"}
         THEN [price |-> r.price, requests |-> attempt + 1]
         ELSE SteamAttempt(replies, attempt + 1, retries)

GetSteamMarketPrice(replies) == SteamAttempt(replies, 0, RETRIES)

(***************************************************************************)
(* RuntimePricingClient.validate_and_correct_price, given the answer of    *)
(* get_steam_market_price.                                                 *)
(***************************************************************************)
Abs(x) == IF x < 0 THEN -x ELSE x

WithinTolerance(price, steam_price, tolerance_percent) ==
    Abs(price - steam_price) * 100 <= tolerance_percent * steam_price

RuntimeValidate(price, steam_price, rarity, tolerance_percent) ==
    IF steam_price = None THEN None
    ELSE IF ~IsPriceReasonable(steam_price, rarity) THEN None
    ELSE IF steam_price > 0
    THEN IF WithinTolerance(price, steam_price, tolerance_percent)
         THEN steam_price
         ELSE None
    ELSE steam_price

(***************************************************************************)
(* SteamPricingClient.validate_and_correct_price: steam_price is the row   *)
(* of steam_prices for the item (None when there is no successful row).    *)
(***************************************************************************)
SteamClientValidate(external_price, steam_price, rarity, tolerance_percent) ==
    IF steam_price # None THEN steam_price ELSE None

(***************************************************************************)
(* The catalog: rows of comprehensive_skins.  A market_hash_name is kept   *)
(* structured (tag, weapon, skin, wear) so that the substring tests of the *)
(* code ('Souvenir' in name, the wear suffix) can be computed; extra is a  *)
(* second "(wear)" suffix appended to a name that already ends in one.     *)
(* Float values are in thousandths; each row is one wear variant and its   *)
(* float range is the range of that wear.                                  *)
(***************************************************************************)
MarketHashName(tag, weapon, skin, wear) ==
    [tag |-> tag, weapon |-> weapon, skin |-> skin, wear |-> wear, extra |-> ""]

Row(collection, rarity, name, min_float, max_float) ==
    [market_hash_name |-> name, condition_name |-> name.wear, rarity |-> rarity,
     collection |-> collection, min_float |-> min_float, max_float |-> max_float]

N_AlphaIn  == MarketHashName("", "MP9", "Alpha In", "Field-Tested")
N_BravoIn  == MarketHashName("", "P250", "Bravo In", "Field-Tested")
N_AlphaOne == MarketHashName("", "AK-47", "Alpha One", "Field-Tested")
N_AlphaTwo == MarketHashName("", "M4A4", "Alpha Two", "Field-Tested")
N_BravoOne == MarketHashName("", "AWP", "Bravo One", "Field-Tested")

Catalog ==
    << Row("Alpha", "Mil-Spec Grade", N_AlphaIn, 150, 380),
       Row("Bravo", "Mil-Spec Grade", N_BravoIn, 150, 380),
       Row("Alpha", "Restricted", N_AlphaOne, 150, 380),
       Row("Alpha", "Restricted", N_AlphaTwo, 150, 380),
       Row("Bravo", "Restricted", N_BravoOne, 150, 380) >>

Names == {Catalog[i].market_hash_name : i \in 1..Len(Catalog)}

RowOf(name) == CHOOSE r \in {Catalog[i] : i \in 1..Len(Catalog)} : r.market_hash_name = name

RarityOf == [n \in Names |-> RowOf(n).rarity]

\* the rows in the order the catalog lists them
CatalogOrder == [i \in 1..Len(Catalog) |-> Catalog[i].market_hash_name]

(***************************************************************************)
(* The ValidationRecord store: the validation columns of comprehensive_    *)
(* skins.  add_price_validation_columns_if_needed creates them with        *)
(* status 'unvalidated' and everything else NULL.                          *)
(***************************************************************************)
NoDiscrepancy == <<>>

Unvalidated ==
    [status |-> "unvalidated", steam_price |-> None,
     discrepancy_percent |-> NoDiscrepancy, last_steam_check |-> None]

NoRow == [status |-> "no row", steam_price |-> None,
          discrepancy_percent |-> NoDiscrepancy, last_check |-> None]

\* ComprehensiveDatabaseManager.get_price_validation_status
GetPriceValidationStatus(rec, name) ==
    IF name \in DOMAIN rec
    THEN [status |-> rec[name].status,
          steam_price |-> rec[name].steam_price,
          discrepancy_percent |-> rec[name].discrepancy_percent,
          last_check |-> rec[name].last_steam_check]
    ELSE NoRow

\* ComprehensiveDatabaseManager.mark_price_validation_status (an UPDATE)
MarkPriceValidationStatus(rec, name, status, steam_price, discrepancy_percent, now) ==
    IF name \in DOMAIN rec
    THEN [rec EXCEPT ![name] =
            [status |-> status, steam_price |-> steam_price,
             discrepancy_percent |-> discrepancy_percent,
             last_steam_check |-> now]]
    ELSE rec

\* reset_price_validation: one UPDATE over every row
ResetRecords(rec) == [n \in DOMAIN rec |-> Unvalidated]

(***************************************************************************)
(* ComprehensiveTradeUpFinder._validate_prices.  prices maps a name to the *)
(* external quote (None: the name is not a key of the dict), order is the  *)
(* iteration order of the dict, replies[n] is what Steam answers for n.    *)
(***************************************************************************)
IsNegativelyCached_Never(validation_status) == FALSE

\* lines 841-847: a record marked invalid is skipped
IsNegativelyCached(validation_status) ==
    validation_status # NoRow /\ validation_status.status = "invalid"

\* lines 849-853: a record marked valid with a Steam price answers from the store
IsPositivelyCached(validation_status) ==
    /\ validation_status # NoRow
    /\ validation_status.status = "valid"
    /\ validation_status.steam_price # None
    /\ validation_status.steam_price # 0

\* lines 866-867
DiscrepancyPercent(price, validated_price) ==
    IF validated_price > 0
    THEN <<Abs(price - validated_price) * 100, validated_price>>
    ELSE <<0, 1>>

\* what a pass did with one name: the quote it was given, the record it found
\* (status and last check), the requests sent to Steam, Steam's answer, and
\* the validated price it returned for the name
LogEntry(outcome, quote, prior, requests, steam, returned) ==
    [outcome |-> outcome, quote |-> quote, prior |-> prior.status,
     prior_check |-> prior.last_check, requests |-> requests,
     steam |-> steam, returned |-> returned]

BlankLog == [n \in Names |-> LogEntry("absent", None, NoRow, 0, None, None)]

MarkRejected_KeepsRecord(rec, name, now) == rec

\* lines 873-877
MarkRejected(rec, name, now) ==
    MarkPriceValidationStatus(rec, name, "invalid", None, NoDiscrepancy, now)

\* lines 829-878: the body of the loop for one key of prices
ValidateOne(acc, name, price, rarity, replies, now) ==
    LET validation_status == GetPriceValidationStatus(acc.rec, name) IN
    IF name.tag = "Souvenir"
    THEN [acc EXCEPT !.log[name] = LogEntry("souvenir", price, validation_status, 0, None, None)]
    ELSE IF IsNegativelyCached(validation_status)
    THEN [acc EXCEPT !.log[name] =
             LogEntry("skipped_invalid", price, validation_status, 0, None, None)]
    ELSE IF IsPositivelyCached(validation_status)
    THEN [acc EXCEPT !.validated[name] = validation_status.steam_price,
                     !.log[name] = LogEntry("cached", price, validation_status, 0, None,
                                            validation_status.steam_price)]
    ELSE LET steam == GetSteamMarketPrice(replies)
             validated_price == RuntimeValidate(price, steam.price, rarity, TOLERANCE_PERCENT)
         IN  IF validated_price # None
             THEN [rec |-> MarkPriceValidationStatus(acc.rec, name, "valid", validated_price,
                                DiscrepancyPercent(price, validated_price), now),
                   validated |-> [acc.validated EXCEPT ![name] = validated_price],
                   log |-> [acc.log EXCEPT ![name] =
                               LogEntry("accepted", price, validation_status,
                                        steam.requests, steam.price, validated_price)]]
             ELSE [rec |-> MarkRejected(acc.rec, name, now),
                   validated |-> acc.validated,
                   log |-> [acc.log EXCEPT ![name] =
                               LogEntry("rejected", price, validation_status,
                                        steam.requests, steam.price, None)]]

RECURSIVE ValidateLoop(_, _, _, _, _, _)
ValidateLoop(acc, order, prices, rarityOf, replies, now) ==
    IF order = <<>> THEN acc
    ELSE LET name == Head(order) IN
         ValidateLoop(
             IF prices[name] = None THEN acc
             ELSE ValidateOne(acc, name, prices[name], rarityOf[name], replies[name], now),
             Tail(order), prices, rarityOf, replies, now)

ValidatePrices(rec, order, prices, rarityOf, replies, now) ==
    ValidateLoop([rec |-> rec, validated |-> [n \in Names |-> None], log |-> BlankLog],
                 order, prices, rarityOf, replies, now)

(***************************************************************************)
(* Exact rationals for the float arithmetic of the finder.                 *)
(***************************************************************************)
RECURSIVE GCD(_, _)
GCD(a, b) == IF b = 0 THEN a ELSE GCD(b, a % b)

Reduce(n, d, g) == [n |-> n \div g, d |-> d \div g]

\* n/d in lowest terms, d > 0
Frac(n, d) ==
    IF d < 0 THEN Reduce(-n, -d, GCD(Abs(n), -d)) ELSE Reduce(n, d, GCD(Abs(n), d))
FAdd(a, b) == Frac(a.n * b.d + b.n * a.d, a.d * b.d)
FSub(a, b) == Frac(a.n * b.d - b.n * a.d, a.d * b.d)
FMul(a, b) == Frac(a.n * b.n, a.d * b.d)
FDiv(a, b) == Frac(a.n * b.d, a.d * b.n)
FInt(i) == Frac(i, 1)
FLess(a, b) == a.n * b.d < b.n * a.d
FLeq(a, b) == a.n * b.d <= b.n * a.d
FEq(a, b) == a.n * b.d = b.n * a.d
FMax(a, b) == IF FLess(a, b) THEN b ELSE a
FMin(a, b) == IF FLess(b, a) THEN b ELSE a

(***************************************************************************)
(* ComprehensiveTradeUpFinder: catalog queries and item filters.           *)
(***************************************************************************)
WearConditions ==
    <<"Factory New", "Minimal Wear", "Field-Tested", "Well-Worn", "Battle-Scarred">>

RaritiesToCheck ==
    <<"Consumer Grade", "Industrial Grade", "Mil-Spec Grade", "Restricted", "Classified">>

RarityProgression(rarity) ==
    CASE rarity = "Consumer Grade"   -> "Industrial Grade"
      [] rarity = "Industrial Grade" -> "Mil-Spec Grade"
      [] rarity = "Mil-Spec Grade"   -> "Restricted"
      [] rarity = "Restricted"       -> "Classified"
      [] rarity = "Classified"       -> "Covert"
      [] OTHER                       -> "none"

\* the collections in the order get_collections_by_rarity returns them (ORDER BY)
AllCollections == <<"Alpha", "Bravo">>

\* the SELECT of get_skins_by_collection_and_rarity over the rows of a table
SelectRows(table, collection, rarity) ==
    SelectSeq(table, LAMBDA r : r.collection = collection /\ r.rarity = rarity)

GetSkinsByCollectionAndRarity(collection, rarity) == SelectRows(Catalog, collection, rarity)

TradeableRarities ==
    {"Consumer Grade", "Industrial Grade", "Mil-Spec Grade", "Restricted", "Classified"}

\* the SELECT of get_all_tradeable_skins over the rows of a table
SelectTradeable(table) ==
    SelectSeq(table, LAMBDA r : r.rarity \in TradeableRarities
                                /\ r.market_hash_name.tag # "Souvenir")

DEFAULT_PRICE == 50

\* models.Skin as build_market_data_from_comprehensive constructs it
MarketSkin(skin_data, price) ==
    [name |-> skin_data.market_hash_name, collection |-> skin_data.collection,
     rarity |-> skin_data.rarity, price |-> price,
     float_min |-> skin_data.min_float, float_max |-> skin_data.max_float,
     marketable |-> TRUE, stattrak |-> skin_data.market_hash_name.tag = "StatTrak"]

PriceOrDefault(price) == IF price = None THEN DEFAULT_PRICE ELSE price

SkinsOf(all_skins, pricing_data) ==
    [i \in 1..Len(all_skins) |->
        MarketSkin(all_skins[i],
                   PriceOrDefault(IF all_skins[i].market_hash_name \in DOMAIN pricing_data
                                  THEN pricing_data[all_skins[i].market_hash_name]
                                  ELSE None))]

\* build_market_data_from_comprehensive: the Skin objects of MarketData, in table order
BuildMarketData(table, pricing_data) == SkinsOf(SelectTradeable(table), pricing_data)

GetCollectionsByRarity(rarity) ==
    SelectSeq(AllCollections,
              LAMBDA c : \E i \in 1..Len(Catalog) :
                            Catalog[i].collection = c /\ Catalog[i].rarity = rarity)

\* the tag of a name is the prefix the code looks for ('Souvenir', 'StatTrak')
IsMarketableSkin(skin) ==
    /\ skin.market_hash_name.tag # "Souvenir"
    /\ skin.market_hash_name.tag # "StatTrak"
    /\ skin.rarity # "Contraband"

\* the first wear of the list found in the name is removed wherever it stands
ExtractBaseSkinName(name) ==
    LET found == {i \in 1..Len(WearConditions) :
                     WearConditions[i] = name.wear \/ WearConditions[i] = name.extra}
    IN  IF found = {} THEN name
        ELSE LET c == WearConditions[CHOOSE i \in found : \A j \in found : i <= j] IN
             [name EXCEPT !.wear = IF name.wear = c THEN "" ELSE name.wear,
                          !.extra = IF name.extra = c THEN "" ELSE name.extra]

RECURSIVE DedupByBase(_, _)
DedupByBase(skins, seen) ==
    IF skins = <<>> THEN <<>>
    ELSE LET base == ExtractBaseSkinName(Head(skins).market_hash_name) IN
         IF base \in seen
         THEN DedupByBase(Tail(skins), seen)
         ELSE <<Head(skins)>> \o DedupByBase(Tail(skins), seen \cup {base})

\* f"{market_hash_name} ({predicted_condition})"
ConditionMarketName(name, condition) ==
    IF name.wear = "" THEN [name EXCEPT !.wear = condition]
    ELSE [name EXCEPT !.extra = condition]

\* self._cached_prices.get(key): None for a key the dict does not hold
CachedGet(prices, key) == IF key \in DOMAIN prices THEN prices[key] ELSE None

Truthy(price) == price # None /\ price # 0

NamesOf(skins) == {skins[i].market_hash_name : i \in 1..Len(skins)}

\* RuntimePricingClient.fetch_prices_for_items: the oracle's quotes for the names asked
FetchPricesForItems(quotes, item_names) ==
    [n \in Names |-> IF n \in item_names THEN quotes[n] ELSE None]

\* dict.update
Update(prices, new_prices) ==
    [n \in Names |-> IF new_prices[n] # None THEN new_prices[n] ELSE prices[n]]

(***************************************************************************)
(* _get_condition_float and _calculate_output_float_and_condition.         *)
(***************************************************************************)
GetConditionFloat(skin) ==
    CASE skin.condition_name = "Factory New"    -> 10
      [] skin.condition_name = "Minimal Wear"   -> 80
      [] skin.condition_name = "Field-Tested"   -> 160
      [] skin.condition_name = "Well-Worn"      -> 390
      [] skin.condition_name = "Battle-Scarred" -> 460
      [] OTHER                                  -> 265

WearFromFloat(f) ==
    IF FLess(f, FInt(70)) THEN "Factory New"
    ELSE IF FLess(f, FInt(150)) THEN "Minimal Wear"
    ELSE IF FLess(f, FInt(380)) THEN "Field-Tested"
    ELSE IF FLess(f, FInt(450)) THEN "Well-Worn"
    ELSE "Battle-Scarred"

Clamp_None(lo, hi, x) == x

\* max(lo, min(hi, x))
Clamp(lo, hi, x) == FMax(lo, FMin(hi, x))

\* input_skin = None: the range is not given
NoSkin == [given |-> FALSE]

FALLBACK_INPUT_MIN == 60
FALLBACK_INPUT_MAX == 800

\* input_skin.get('min_float', 0.0) and input_skin.get('max_float', 1.0)
DEFAULT_MIN_FLOAT == 0
DEFAULT_MAX_FLOAT == 1000

\* lines 1154-1160: the input skin's own range (the defaults of get for a key
\* the dict does not hold), or the general range when no input skin is given
InputMin(input_skin) ==
    IF input_skin = NoSkin THEN FInt(FALLBACK_INPUT_MIN)
    ELSE IF "min_float" \in DOMAIN input_skin THEN FInt(input_skin.min_float)
    ELSE FInt(DEFAULT_MIN_FLOAT)

InputMax(input_skin) ==
    IF input_skin = NoSkin THEN FInt(FALLBACK_INPUT_MAX)
    ELSE IF "max_float" \in DOMAIN input_skin THEN FInt(input_skin.max_float)
    ELSE FInt(DEFAULT_MAX_FLOAT)

RelativePosition_OfGeneralRange(input_float, input_min, input_max) ==
    FDiv(FSub(input_float, FInt(FALLBACK_INPUT_MIN)),
         FSub(FInt(FALLBACK_INPUT_MAX), FInt(FALLBACK_INPUT_MIN)))

\* lines 1163-1166: the position of input_float within the input skin's range
RelativePosition(input_float, input_min, input_max) ==
    IF FLess(input_min, input_max)
    THEN FDiv(FSub(input_float, input_min), FSub(input_max, input_min))
    ELSE FInt(0)

\* lines 1169-1175
ScaleToOutput(relative_position, output_min, output_max) ==
    Clamp(output_min, output_max,
          FAdd(output_min, FMul(relative_position, FSub(output_max, output_min))))

FloatAndCondition(scaled_output_float) ==
    [float |-> scaled_output_float, condition |-> WearFromFloat(scaled_output_float)]

\* input_float is a rational; the ranges are those of the two rows
CalculateOutputFloatAndCondition(input_float, output_skin, input_skin) ==
    FloatAndCondition(
        ScaleToOutput(Clamp(FInt(0), FInt(1),
                            RelativePosition(input_float, InputMin(input_skin),
                                             InputMax(input_skin))),
                      FInt(output_skin.min_float), FInt(output_skin.max_float)))

(***************************************************************************)
(* Results.  Money is in cents; probabilities, expected values, profits    *)
(* and ROI are exact rationals.                                            *)
(***************************************************************************)
FEE == 85
INPUTS_PER_TRADE == 10

NoResult == [kind |-> "none"]

SkinObj(name, rarity, price, collection) ==
    [name |-> name, rarity |-> rarity, price |-> price, collection |-> collection]

OutputSkin(skin, probability) == [skin |-> skin, probability |-> probability]

Repeat(x, count) == [i \in 1..count |-> x]

RECURSIVE SumExpected(_)
SumExpected(outs) ==
    IF outs = <<>> THEN FInt(0)
    ELSE FAdd(FMul(FInt(Head(outs).skin.price), Head(outs).probability),
              SumExpected(Tail(outs)))

RECURSIVE SumProbability(_)
SumProbability(outs) ==
    IF outs = <<>> THEN FInt(0)
    ELSE FAdd(Head(outs).probability, SumProbability(Tail(outs)))

MinPrice(outs) ==
    LET ps == {outs[i].skin.price : i \in 1..Len(outs)} IN
    CHOOSE p \in ps : \A q \in ps : p <= q

AfterFee(value) == FMul(value, Frac(FEE, 100))

ExpectedProfit(expected_output_value, total_cost) ==
    FSub(expected_output_value, FInt(total_cost))

TradeUpResult(kind, collection1, collection2, split, skins, total_cost, average_float, output_skins, expected_output_value) ==
    [kind |-> kind, collection1 |-> collection1, collection2 |-> collection2,
     split_ratio |-> split, skins |-> skins, total_cost |-> total_cost,
     average_float |-> average_float, output_skins |-> output_skins,
     expected_output_price |-> expected_output_value,
     raw_profit |-> ExpectedProfit(expected_output_value, total_cost),
     roi_percentage |-> FMul(FDiv(ExpectedProfit(expected_output_value, total_cost),
                                  FInt(total_cost)),
                             FInt(100)),
     guaranteed_profit |-> FALSE,
     min_output_price |-> MinPrice(output_skins)]

(***************************************************************************)
(* _calculate_single_collection_tradeup (external-pricing mode).           *)
(***************************************************************************)
NoCheapest == [price |-> None]

IsValidWithSteamPrice(validation_status) ==
    /\ validation_status # NoRow
    /\ validation_status.status = "valid"
    /\ Truthy(validation_status.steam_price)
    /\ validation_status.steam_price > 0

WithinMaxInputPrice(price, max_input_price) ==
    max_input_price = None \/ max_input_price = 0 \/ price <= max_input_price

\* lines 232-247: the price a candidate input counts with, None if it is passed over
FinalPrice(price, validation_status, max_input_price) ==
    IF ~(Truthy(price) /\ WithinMaxInputPrice(price, max_input_price)) THEN None
    ELSE IF validation_status # NoRow /\ validation_status.status = "invalid" THEN None
    ELSE IF IsValidWithSteamPrice(validation_status) THEN validation_status.steam_price
    ELSE price

FinalInputPrice(rec, prices, skin, max_input_price) ==
    FinalPrice(CachedGet(prices, skin.market_hash_name),
               GetPriceValidationStatus(rec, skin.market_hash_name), max_input_price)

\* lines 249-251: if final_price < cheapest_price
Cheaper(skin, final_price, best) ==
    IF final_price # None /\ (best.price = None \/ final_price < best.price)
    THEN [skin |-> skin, price |-> final_price]
    ELSE best

RECURSIVE CheapestInputLoop(_, _, _, _, _)
CheapestInputLoop(rec, prices, skins, max_input_price, best) ==
    IF skins = <<>> THEN best
    ELSE CheapestInputLoop(rec, prices, Tail(skins), max_input_price,
             Cheaper(Head(skins),
                     FinalInputPrice(rec, prices, Head(skins), max_input_price), best))

\* line 294: a quote whose record is missing or 'unvalidated' is used as it is
SingleCountsUnvalidated(validation_status) ==
    validation_status = NoRow \/ validation_status.status = "unvalidated"

\* lines 274-276: the condition-specific name is looked up first, then the row's name
OutputPriceLookup(first, prices, base_market_name) ==
    IF ~Truthy(first) THEN CachedGet(prices, base_market_name) ELSE first

\* lines 278-295: the price an output is listed with, None if it is left out
OutputPriceUsed(output_price, validation_status) ==
    IF ~(Truthy(output_price) /\ output_price > 0) THEN None
    ELSE IF validation_status # NoRow /\ validation_status.status = "valid"
    THEN IF IsValidWithSteamPrice(validation_status)
         THEN validation_status.steam_price
         ELSE output_price
    ELSE IF SingleCountsUnvalidated(validation_status) THEN output_price
    ELSE None

PricedOutputAt(rec, prices, output_skin, fc) ==
    [skin |-> output_skin,
     price |-> OutputPriceUsed(
                   OutputPriceLookup(
                       CachedGet(prices, ConditionMarketName(output_skin.market_hash_name,
                                                             fc.condition)),
                       prices, output_skin.market_hash_name),
                   GetPriceValidationStatus(rec, output_skin.market_hash_name)),
     scaled_float |-> fc.float,
     predicted_condition |-> fc.condition]

\* lines 268-295, for one output
PricedOutput(rec, prices, output_skin, input_float, cheapest_input) ==
    PricedOutputAt(rec, prices, output_skin,
        CalculateOutputFloatAndCondition(FInt(input_float), output_skin, cheapest_input))

\* lines 301-306: probability = 1.0 / num_outputs, num_outputs = len(valid_priced_outputs)
SingleProbability(valid_outputs, valid_priced_outputs) ==
    Frac(1, Len(valid_priced_outputs))

\* lines 304-319
SingleOutputObjects(collection, valid_outputs, valid_priced_outputs) ==
    [i \in 1..Len(valid_priced_outputs) |->
        OutputSkin(SkinObj(ConditionMarketName(valid_priced_outputs[i].skin.market_hash_name,
                                               valid_priced_outputs[i].predicted_condition),
                           valid_priced_outputs[i].skin.rarity,
                           valid_priced_outputs[i].price, collection),
                   SingleProbability(valid_outputs, valid_priced_outputs))]

\* lines 320-355: the result of one wear condition
SingleResult(collection, cheapest, output_skin_objects) ==
    TradeUpResult("single", collection, "", <<INPUTS_PER_TRADE, 0>>,
                  Repeat(SkinObj(cheapest.skin.market_hash_name, cheapest.skin.rarity,
                                 cheapest.price, collection),
                         INPUTS_PER_TRADE),
                  cheapest.price * INPUTS_PER_TRADE,
                  FInt(GetConditionFloat(cheapest.skin)),
                  output_skin_objects,
                  AfterFee(SumExpected(output_skin_objects)))

SingleWithOutputs(collection, cheapest, valid_outputs, valid_priced_outputs) ==
    IF valid_priced_outputs = <<>> THEN NoResult
    ELSE SingleResult(collection, cheapest,
                      SingleOutputObjects(collection, valid_outputs, valid_priced_outputs))

SingleWithInput(rec, prices, collection, marketable_outputs, cheapest) ==
    IF cheapest = NoCheapest THEN NoResult
    ELSE SingleWithOutputs(collection, cheapest, marketable_outputs,
             SelectSeq([i \in 1..Len(marketable_outputs) |->
                           PricedOutput(rec, prices, marketable_outputs[i],
                                        GetConditionFloat(cheapest.skin), cheapest.skin)],
                       LAMBDA c : c.price # None))

\* lines 221-355: one pass of the loop over the wear conditions
SingleForCondition(rec, prices, collection, marketable_inputs, marketable_outputs, condition, max_input_price) ==
    SingleWithInput(rec, prices, collection, marketable_outputs,
        CheapestInputLoop(rec, prices,
                          SelectSeq(marketable_inputs, LAMBDA x : x.condition_name = condition),
                          max_input_price, NoCheapest))

\* line 322: if expected_profit > best_profit
SingleKeeps(expected_profit, best_profit) == FLess(best_profit, expected_profit)

\* lines 322-355: best is the pair best_result, best_profit
SingleConsider(r, best) ==
    IF r # NoResult /\ SingleKeeps(r.raw_profit, best.profit)
    THEN [result |-> r, profit |-> r.raw_profit]
    ELSE best

RECURSIVE SingleConditionLoop(_, _, _, _, _, _, _, _)
SingleConditionLoop(rec, prices, collection, marketable_inputs, marketable_outputs, conditions, max_input_price, best) ==
    IF conditions = <<>> THEN best.result
    ELSE SingleConditionLoop(rec, prices, collection, marketable_inputs,
             marketable_outputs, Tail(conditions), max_input_price,
             SingleConsider(SingleForCondition(rec, prices, collection, marketable_inputs,
                                marketable_outputs, Head(conditions), max_input_price),
                            best))

Validated(rec, prices, out) == [rec |-> out.rec, prices |-> Update(prices, out.validated)]

FetchMissing(rec, prices, quotes, answers, missing_prices, now) ==
    IF missing_prices = {} THEN [rec |-> rec, prices |-> prices]
    ELSE Validated(rec, prices,
             ValidatePrices(rec, CatalogOrder, FetchPricesForItems(quotes, missing_prices),
                            RarityOf, answers, now))

\* lines 204-219: the quotes missing from the cache are fetched and validated
FetchAndValidate(rec, prices, quotes, answers, all_names, now) ==
    FetchMissing(rec, prices, quotes, answers,
                 {n \in all_names : CachedGet(prices, n) = None}, now)

SingleAfterFetch(st, collection, marketable_inputs, marketable_outputs, max_input_price, min_profit) ==
    [rec |-> st.rec, prices |-> st.prices,
     result |-> SingleConditionLoop(st.rec, st.prices, collection, marketable_inputs,
                    marketable_outputs, WearConditions, max_input_price,
                    [result |-> NoResult, profit |-> FInt(min_profit)])]

SingleChecked(rec, prices, quotes, answers, collection, output_rarity, marketable_inputs, marketable_outputs, max_input_price, min_profit, now) ==
    IF output_rarity = "none" \/ marketable_inputs = <<>> \/ marketable_outputs = <<>>
    THEN [rec |-> rec, prices |-> prices, result |-> NoResult]
    ELSE SingleAfterFetch(
             FetchAndValidate(rec, prices, quotes, answers,
                 NamesOf(marketable_inputs) \cup NamesOf(marketable_outputs), now),
             collection, marketable_inputs, marketable_outputs, max_input_price,
             min_profit)

\* the whole of _calculate_single_collection_tradeup: the store and the price
\* cache it leaves behind and the result it returns
CalculateSingleCollectionTradeup(rec, prices, quotes, answers, collection, input_rarity, input_skins, max_input_price, min_profit, now) ==
    SingleChecked(rec, prices, quotes, answers, collection,
        RarityProgression(input_rarity),
        SelectSeq(input_skins, IsMarketableSkin),
        DedupByBase(SelectSeq(GetSkinsByCollectionAndRarity(collection,
                                  RarityProgression(input_rarity)),
                              IsMarketableSkin), {}),
        max_input_price, min_profit, now)

(***************************************************************************)
(* _calculate_mixed_collection_tradeup and _find_cheapest_input.           *)
(***************************************************************************)
\* lines 1374-1379
CheaperListed(skin, price, max_input_price, cheapest) ==
    IF /\ Truthy(price) /\ price > 0
       /\ WithinMaxInputPrice(price, max_input_price)
       /\ (cheapest.price = None \/ price < cheapest.price)
    THEN [skin |-> skin, price |-> price]
    ELSE cheapest

RECURSIVE FindCheapestInputLoop(_, _, _, _)
FindCheapestInputLoop(prices, input_skins, max_input_price, cheapest) ==
    IF input_skins = <<>> THEN cheapest
    ELSE FindCheapestInputLoop(prices, Tail(input_skins), max_input_price,
             CheaperListed(Head(input_skins),
                           CachedGet(prices, Head(input_skins).market_hash_name),
                           max_input_price, cheapest))

FindCheapestInput(prices, input_skins, max_input_price) ==
    FindCheapestInputLoop(prices, input_skins, max_input_price, NoCheapest)

\* lines 1283 and 1299: (count * k) / sum_over_collections / k
MixedProbability(count, k, sum_over_collections) ==
    Frac(count * k, sum_over_collections * k)

HasCachedPrice(prices, name) ==
    Truthy(CachedGet(prices, name)) /\ CachedGet(prices, name) > 0

MixedOutputObjects(prices, collection, priced, probability) ==
    [i \in 1..Len(priced) |->
        OutputSkin(SkinObj(priced[i].market_hash_name, priced[i].rarity,
                           CachedGet(prices, priced[i].market_hash_name), collection),
                   probability)]

\* lines 1280-1313: the outputs of one collection that have a price in the cache
MixedOutputs(prices, collection, marketable_outputs, count, sum_over_collections) ==
    MixedOutputObjects(prices, collection,
        SelectSeq(marketable_outputs, LAMBDA o : HasCachedPrice(prices, o.market_hash_name)),
        MixedProbability(count, Len(marketable_outputs), sum_over_collections))

\* line 1322: if expected_profit < min_profit: return None
MixedKeeps(expected_profit, min_profit) == ~FLess(expected_profit, FInt(min_profit))

SumOverCollections(primary_count, k_primary, secondary_count, k_secondary) ==
    primary_count * k_primary + secondary_count * k_secondary

\* lines 1325-1366
MixedResult(st, primary_collection, secondary_collection, split, cheapest_primary, cheapest_secondary, output_skin_objects, expected_output_value, total_input_cost, min_profit) ==
    IF output_skin_objects = <<>>
       \/ ~MixedKeeps(ExpectedProfit(expected_output_value, total_input_cost), min_profit)
    THEN [rec |-> st.rec, prices |-> st.prices, result |-> NoResult]
    ELSE [rec |-> st.rec, prices |-> st.prices,
          result |-> TradeUpResult("mixed", primary_collection, secondary_collection, split,
                         Repeat(SkinObj(cheapest_primary.skin.market_hash_name,
                                        cheapest_primary.skin.rarity,
                                        cheapest_primary.price, primary_collection),
                                split[1])
                         \o Repeat(SkinObj(cheapest_secondary.skin.market_hash_name,
                                           cheapest_secondary.skin.rarity,
                                           cheapest_secondary.price, secondary_collection),
                                   split[2]),
                         total_input_cost,
                         Frac(GetConditionFloat(cheapest_primary.skin) * split[1]
                              + GetConditionFloat(cheapest_secondary.skin) * split[2],
                              INPUTS_PER_TRADE),
                         output_skin_objects, expected_output_value)]

MixedValued(st, primary_collection, secondary_collection, split, cheapest_primary, cheapest_secondary, output_skin_objects, min_profit) ==
    MixedResult(st, primary_collection, secondary_collection, split, cheapest_primary,
                cheapest_secondary, output_skin_objects,
                AfterFee(SumExpected(output_skin_objects)),
                cheapest_primary.price * split[1] + cheapest_secondary.price * split[2],
                min_profit)

\* lines 1262-1316
MixedWithInputs(st, primary_collection, secondary_collection, split, marketable_primary_outputs, marketable_secondary_outputs, cheapest_primary, cheapest_secondary, sum_over_collections, min_profit) ==
    IF cheapest_primary = NoCheapest \/ cheapest_secondary = NoCheapest
       \/ sum_over_collections = 0
    THEN [rec |-> st.rec, prices |-> st.prices, result |-> NoResult]
    ELSE MixedValued(st, primary_collection, secondary_collection, split,
             cheapest_primary, cheapest_secondary,
             MixedOutputs(st.prices, primary_collection, marketable_primary_outputs,
                          split[1], sum_over_collections)
             \o MixedOutputs(st.prices, secondary_collection, marketable_secondary_outputs,
                             split[2], sum_over_collections),
             min_profit)

MixedAfterFetch(st, primary_collection, secondary_collection, split, marketable_primary_inputs, marketable_secondary_inputs, marketable_primary_outputs, marketable_secondary_outputs, max_input_price, min_profit) ==
    MixedWithInputs(st, primary_collection, secondary_collection, split,
        marketable_primary_outputs, marketable_secondary_outputs,
        FindCheapestInput(st.prices, marketable_primary_inputs, max_input_price),
        FindCheapestInput(st.prices, marketable_secondary_inputs, max_input_price),
        SumOverCollections(split[1], Len(marketable_primary_outputs),
                           split[2], Len(marketable_secondary_outputs)),
        min_profit)

MixedChecked(rec, prices, quotes, answers, primary_collection, secondary_collection, output_rarity, split, marketable_primary_inputs, marketable_secondary_inputs, marketable_primary_outputs, marketable_secondary_outputs, max_input_price, min_profit, now) ==
    IF \/ output_rarity = "none"
       \/ marketable_primary_inputs = <<>> \/ marketable_secondary_inputs = <<>>
       \/ marketable_primary_outputs = <<>> \/ marketable_secondary_outputs = <<>>
    THEN [rec |-> rec, prices |-> prices, result |-> NoResult]
    ELSE MixedAfterFetch(
             FetchAndValidate(rec, prices, quotes, answers,
                 NamesOf(marketable_primary_inputs \o marketable_secondary_inputs)
                 \cup NamesOf(marketable_primary_outputs \o marketable_secondary_outputs),
                 now),
             primary_collection, secondary_collection, split,
             marketable_primary_inputs, marketable_secondary_inputs,
             marketable_primary_outputs, marketable_secondary_outputs,
             max_input_price, min_profit)

\* the whole of _calculate_mixed_collection_tradeup
CalculateMixedCollectionTradeup(rec, prices, quotes, answers, primary_collection, secondary_collection, input_rarity, primary_input_skins, secondary_input_skins, split, max_input_price, min_profit, now) ==
    MixedChecked(rec, prices, quotes, answers, primary_collection, secondary_collection,
        RarityProgression(input_rarity), split,
        SelectSeq(primary_input_skins, IsMarketableSkin),
        SelectSeq(secondary_input_skins, IsMarketableSkin),
        SelectSeq(GetSkinsByCollectionAndRarity(primary_collection,
                                                RarityProgression(input_rarity)),
                  IsMarketableSkin),
        SelectSeq(GetSkinsByCollectionAndRarity(secondary_collection,
                                                RarityProgression(input_rarity)),
                  IsMarketableSkin),
        max_input_price, min_profit, now)

(***************************************************************************)
(* find_profitable_trades: the order in which it visits configurations,    *)
(* and the sort of what it returns.                                        *)
(***************************************************************************)
Splits == << <<9, 1>>, <<8, 2>>, <<7, 3>>, <<6, 4>>, <<5, 5>> >>

RECURSIVE Flatten(_)
Flatten(ss) == IF ss = <<>> THEN <<>> ELSE Head(ss) \o Flatten(Tail(ss))

SingleConfiguration(rarity, primary) ==
    [kind |-> "single", rarity |-> rarity, primary |-> primary, secondary |-> "",
     split |-> <<INPUTS_PER_TRADE, 0>>]

MixedConfiguration(rarity, primary, secondary, split) ==
    [kind |-> "mixed", rarity |-> rarity, primary |-> primary, secondary |-> secondary,
     split |-> split]

\* lines 101-154: the body of the loop over primary collections; collections
\* is sorted, so a later position is a greater name
PrimaryBlock(rarity, collections, i) ==
    <<SingleConfiguration(rarity, collections[i])>>
    \o Flatten([j \in 1..Len(collections) |->
                  IF j > i
                  THEN [x \in 1..Len(Splits) |->
                           MixedConfiguration(rarity, collections[i], collections[j],
                                              Splits[x])]
                  ELSE <<>>])

SweepOrder ==
    Flatten([r \in 1..Len(RaritiesToCheck) |->
               LET collections == GetCollectionsByRarity(RaritiesToCheck[r]) IN
               Flatten([i \in 1..Len(collections) |->
                          PrimaryBlock(RaritiesToCheck[r], collections, i)])])

\* the position after the block of the primary collection position i belongs to
NextPrimary(i) ==
    LET later == {j \in (i + 1)..Len(SweepOrder) : SweepOrder[j].kind = "single"} IN
    IF later = {} THEN Len(SweepOrder) + 1
    ELSE CHOOSE j \in later : \A k \in later : j <= k

\* list.sort(key=lambda x: x.expected_profit, reverse=True): stable, so
\* results of equal profit keep the order in which they were found
RECURSIVE InsertByProfit(_, _)
InsertByProfit(sorted, r) ==
    IF sorted = <<>> THEN <<r>>
    ELSE IF FLess(Head(sorted).raw_profit, r.raw_profit) THEN <<r>> \o sorted
    ELSE <<Head(sorted)>> \o InsertByProfit(Tail(sorted), r)

RECURSIVE SortLoop(_, _)
SortLoop(todo, sorted) ==
    IF todo = <<>> THEN sorted
    ELSE SortLoop(Tail(todo), InsertByProfit(sorted, Head(todo)))

SortByExpectedProfit(results) == SortLoop(results, <<>>)

Take(seq, limit) == SubSeq(seq, 1, IF Len(seq) < limit THEN Len(seq) ELSE limit)

(***************************************************************************)
(* Specification Spec: the ValidationRecord store under validation passes  *)
(* of a finder in external-pricing mode, the passing of time and the       *)
(* administrative reset.                                                   *)
(***************************************************************************)
ValidatorNames == {N_AlphaIn, N_AlphaOne}

Quotes == {840, 1000}

SteamPrices == {2, 700, 1000, 3000}

Answer(kind, price) ==
    <<Reply(kind, price), Reply("timeout", None), Reply("timeout", None)>>

SteamScripts ==
    {Answer("median", p) : p \in SteamPrices}
    \cup { <<Reply("timeout", None), Reply("exception", None), Reply("unsuccessful", None)>>,
           <<Reply("429", None), Reply("non200", None), Reply("429", None)>>,
           <<Reply("429", None), Reply("unparsable", None), Reply("lowest", 700)>> }

NoScript == Answer("timeout", None)

\* what a pass is given for one name: no quote, or a quote and Steam's replies
Offers ==
    {[quote |-> None, replies |-> NoScript]}
    \cup {[quote |-> q, replies |-> r] : q \in Quotes, r \in SteamScripts}

ClockStep == (FRESH_DAYS + 1) \div 2

NoPasses == <<>>

NoCall == [fn |-> "none"]
NoReturn == [done |-> FALSE]
Returned(value) == [done |-> TRUE, value |-> value]

StoreInit ==
    /\ record = [n \in Names |-> Unvalidated]
    /\ clock = 0
    /\ lastOp = "init"
    /\ passLog = BlankLog

\* no RateLimiter and no RuntimePricingClient at work
NoLimiter == [kind |-> "none"]
NoPricingClient == [kind |-> "none"]

ClientsIdle ==
    /\ rate_limiter = NoLimiter
    /\ pricing_client = NoPricingClient

\* no finder at work
FinderAtRest ==
    /\ oracle = [n \in Names |-> None]
    /\ steam_market = [n \in Names |-> NoScript]
    /\ cached_prices = [n \in Names |-> None]
    /\ cursor = 0
    /\ skipped = 0
    /\ opportunities = <<>>
    /\ errors = <<>>
    /\ passes = NoPasses

FinderIdle ==
    /\ FinderAtRest
    /\ ClientsIdle

Init ==
    /\ StoreInit
    /\ FinderIdle
    /\ call = NoCall
    /\ ret = NoReturn

\* one call of _validate_prices(prices, skins)
ValidatePricesPass ==
    \E offer \in [ValidatorNames -> Offers] :
        LET prices == [n \in Names |-> IF n \in ValidatorNames THEN offer[n].quote ELSE None]
            scripts == [n \in Names |-> IF n \in ValidatorNames THEN offer[n].replies
                                        ELSE NoScript]
            out == ValidatePrices(record, CatalogOrder, prices, RarityOf, scripts, clock)
        IN  /\ \E n \in ValidatorNames : offer[n].quote # None
            /\ record' = out.rec
            /\ passLog' = out.log
            /\ lastOp' = "validate_prices"
            /\ UNCHANGED <<clock, callVars, finderVars, clientVars>>

\* time passes
AdvanceClock ==
    /\ clock + ClockStep <= MaxDay
    /\ clock' = clock + ClockStep
    /\ lastOp' = "advance_clock"
    /\ passLog' = BlankLog
    /\ UNCHANGED <<record, callVars, finderVars, clientVars>>

\* reset_price_validation.py
ResetPriceValidation ==
    /\ record' = ResetRecords(record)
    /\ lastOp' = "reset_price_validation"
    /\ passLog' = BlankLog
    /\ UNCHANGED <<clock, callVars, finderVars, clientVars>>

Next == ValidatePricesPass \/ AdvanceClock \/ ResetPriceValidation

Spec == Init /\ [][Next]_vars

(***************************************************************************)
(* Specification SpecClient: validate_and_correct_price of the two pricing *)
(* clients as a function of the external quote, the price the              *)
(* authoritative source holds for the item (None: no price), the rarity    *)
(* and the tolerance.                                                      *)
(***************************************************************************)
RarityArgs ==
    {"Consumer Grade", "Industrial Grade", "Mil-Spec Grade", "Restricted",
     "Classified", "Covert", "Unknown"}

ExternalArgs == {700, 840, 1000}

SteamArgs == {None, 0, 2, 3, 300, 301, 700, 1000}

ClientInit ==
    /\ StoreInit
    /\ call \in [fn : {"RuntimePricingClient.validate_and_correct_price",
                       "SteamPricingClient.validate_and_correct_price"},
                 price : ExternalArgs, steam_price : SteamArgs,
                 rarity : RarityArgs, tolerance_percent : {TOLERANCE_PERCENT}]
    /\ ret = NoReturn
    /\ FinderIdle

RuntimeValidateCall ==
    /\ call.fn = "RuntimePricingClient.validate_and_correct_price"
    /\ ~ret.done
    /\ ret' = Returned(RuntimeValidate(call.price, call.steam_price, call.rarity,
                                       call.tolerance_percent))
    /\ UNCHANGED <<storeVars, call, finderVars, clientVars>>

SteamClientValidateCall ==
    /\ call.fn = "SteamPricingClient.validate_and_correct_price"
    /\ ~ret.done
    /\ ret' = Returned(SteamClientValidate(call.price, call.steam_price, call.rarity,
                                           call.tolerance_percent))
    /\ UNCHANGED <<storeVars, call, finderVars, clientVars>>

ClientNext == RuntimeValidateCall \/ SteamClientValidateCall

SpecClient == ClientInit /\ [][ClientNext]_vars

(***************************************************************************)
(* Specification SpecFinder: a ComprehensiveTradeUpFinder in external-     *)
(* pricing mode over the catalog: initialize(), then one call of           *)
(* find_profitable_trades, one step per configuration it evaluates.        *)
(***************************************************************************)
InputQuotes == [n \in {N_AlphaIn, N_BravoIn} |-> IF n = N_AlphaIn THEN 270 ELSE 100]

OutputQuotes ==
    [n \in {N_AlphaOne, N_AlphaTwo, N_BravoOne} |->
        IF n = N_AlphaOne THEN {None, 2000, 4000}
        ELSE IF n = N_AlphaTwo THEN {None, 4000}
        ELSE {None, 2000}]

OracleWorlds ==
    {q \in [Names -> {None, 100, 270, 2000, 4000}] :
        /\ \A n \in DOMAIN InputQuotes : q[n] = InputQuotes[n]
        /\ \A n \in DOMAIN OutputQuotes : q[n] \in OutputQuotes[n]}

\* Steam answers with the median price it holds, or not at all
SteamHolds ==
    {h \in [Names -> {None, 100, 270, 1800, 2000, 4000}] :
        /\ h[N_AlphaIn] = 270 /\ h[N_BravoIn] = 100 /\ h[N_AlphaTwo] = 4000
        /\ h[N_AlphaOne] \in {None, 2000}
        /\ h[N_BravoOne] \in {None, 1800, 2000}}

SteamScriptFor(price) == IF price = None THEN NoScript ELSE Answer("median", price)

MinProfits == {100, 700}
MaxInputPrices == {None, 100}
Limits == {1, 10}
Offsets == {0, 1}

FinderInit ==
    /\ StoreInit
    /\ oracle \in OracleWorlds
    /\ \E h \in SteamHolds : steam_market = [n \in Names |-> SteamScriptFor(h[n])]
    /\ cached_prices = [n \in Names |-> None]
    /\ cursor = 0
    /\ skipped = 0
    /\ opportunities = <<>>
    /\ errors = <<>>
    /\ ClientsIdle
    /\ passes = NoPasses
    /\ call = NoCall
    /\ ret = NoReturn

\* initialize(): get_all_prices or get_sample_prices puts the oracle's quotes
\* into _cached_prices as they are; a sample may hold none of the catalog's names
Initialize ==
    /\ lastOp = "init"
    /\ \E loaded \in {Names, {}} :
          cached_prices' = Update(cached_prices, FetchPricesForItems(oracle, loaded))
    /\ lastOp' = "initialize"
    /\ UNCHANGED <<record, clock, passLog, callVars, oracle, steam_market, clientVars, passes, cursor, skipped,
                   opportunities, errors>>

\* find_profitable_trades is called
FindProfitableTrades ==
    /\ lastOp = "initialize"
    /\ call = NoCall
    /\ call' \in [fn : {"find_profitable_trades"}, min_profit : MinProfits,
                  max_input_price : MaxInputPrices, limit : Limits, offset : Offsets]
    /\ cursor' = 1
    /\ skipped' = 0
    /\ opportunities' = <<>>
    /\ errors' = <<>>
    /\ lastOp' = "find_profitable_trades"
    /\ UNCHANGED <<record, clock, passLog, ret, oracle, steam_market, clientVars, passes, cached_prices>>

Sweeping ==
    /\ call # NoCall
    /\ call.fn = "find_profitable_trades"
    /\ ~ret.done

Collect_NoEarlyExit(result, skip_to) ==
    IF result = NoResult
    THEN /\ cursor' = cursor + 1
         /\ UNCHANGED <<skipped, opportunities, ret>>
    ELSE IF skipped < call.offset
    THEN /\ skipped' = skipped + 1
         /\ cursor' = skip_to
         /\ UNCHANGED <<opportunities, ret>>
    ELSE /\ opportunities' = Append(opportunities, result)
         /\ cursor' = cursor + 1
         /\ UNCHANGED <<skipped, ret>>

\* lines 110-121 and 139-150: what the loop does with the result of a configuration
Collect(result, skip_to) ==
    IF result = NoResult
    THEN /\ cursor' = cursor + 1
         /\ UNCHANGED <<skipped, opportunities, ret>>
    ELSE IF skipped < call.offset
    THEN /\ skipped' = skipped + 1
         /\ cursor' = skip_to
         /\ UNCHANGED <<opportunities, ret>>
    ELSE /\ opportunities' = Append(opportunities, result)
         /\ UNCHANGED skipped
         /\ IF Len(opportunities') >= call.limit
            THEN /\ ret' = Returned(Take(SortByExpectedProfit(opportunities'), call.limit))
                 /\ UNCHANGED cursor
            ELSE /\ cursor' = cursor + 1
                 /\ UNCHANGED ret

\* one single-collection configuration: lines 103-123
SingleStep ==
    /\ Sweeping
    /\ cursor <= Len(SweepOrder)
    /\ SweepOrder[cursor].kind = "single"
    /\ \E out \in {CalculateSingleCollectionTradeup(record, cached_prices, oracle,
                      steam_market, SweepOrder[cursor].primary, SweepOrder[cursor].rarity,
                      GetSkinsByCollectionAndRarity(SweepOrder[cursor].primary,
                                                    SweepOrder[cursor].rarity),
                      call.max_input_price, call.min_profit, clock)} :
           /\ record' = out.rec
           /\ cached_prices' = out.prices
           /\ Collect(out.result, NextPrimary(cursor))
    /\ lastOp' = "single"
    /\ UNCHANGED <<clock, passLog, call, oracle, steam_market, clientVars, passes, errors>>

\* one mixed-collection configuration: lines 125-154
MixedStep ==
    /\ Sweeping
    /\ cursor <= Len(SweepOrder)
    /\ SweepOrder[cursor].kind = "mixed"
    /\ \E out \in {CalculateMixedCollectionTradeup(record, cached_prices, oracle,
                      steam_market, SweepOrder[cursor].primary,
                      SweepOrder[cursor].secondary, SweepOrder[cursor].rarity,
                      GetSkinsByCollectionAndRarity(SweepOrder[cursor].primary,
                                                    SweepOrder[cursor].rarity),
                      GetSkinsByCollectionAndRarity(SweepOrder[cursor].secondary,
                                                    SweepOrder[cursor].rarity),
                      SweepOrder[cursor].split, call.max_input_price, call.min_profit,
                      clock)} :
           /\ record' = out.rec
           /\ cached_prices' = out.prices
           /\ Collect(out.result, cursor + 1)
    /\ lastOp' = "mixed"
    /\ UNCHANGED <<clock, passLog, call, oracle, steam_market, clientVars, passes, errors>>

\* lines 160-162: every configuration has been evaluated
FinishSweep ==
    /\ Sweeping
    /\ cursor > Len(SweepOrder)
    /\ ret' = Returned(Take(SortByExpectedProfit(opportunities), call.limit))
    /\ lastOp' = "return"
    /\ UNCHANGED <<record, clock, passLog, call, oracle, steam_market, clientVars, passes, cached_prices, cursor,
                   skipped, opportunities, errors>>

FinderNext == Initialize \/ FindProfitableTrades \/ SingleStep \/ MixedStep \/ FinishSweep

SpecFinder == FinderInit /\ [][FinderNext]_vars

(***************************************************************************)
(* Specification SpecScale: _calculate_output_float_and_condition as a     *)
(* function of the input float, the output item's range and the input      *)
(* item's range (thousandths).  Output ranges are those of catalog items,  *)
(* min_float <= max_float; the input range may be missing, empty or        *)
(* inverted.                                                               *)
(***************************************************************************)
FloatRange(min_float, max_float) == [min_float |-> min_float, max_float |-> max_float]

InputFloats == {0, 10, 60, 80, 150, 160, 265, 380, 390, 460, 800, 1000}

OutputRanges ==
    {FloatRange(0, 1000), FloatRange(150, 380), FloatRange(60, 800), FloatRange(0, 70),
     FloatRange(200, 200)}

\* an input skin dict without the keys min_float and max_float
SkinWithoutRange == [condition_name |-> "Field-Tested"]

InputRanges ==
    {NoSkin, SkinWithoutRange, FloatRange(0, 1000), FloatRange(150, 380),
     FloatRange(60, 800), FloatRange(380, 380), FloatRange(380, 150)}

ScaleInit ==
    /\ StoreInit
    /\ FinderIdle
    /\ call \in [fn : {"_calculate_output_float_and_condition"},
                 input_float : InputFloats, output_skin : OutputRanges,
                 input_skin : InputRanges]
    /\ ret = NoReturn

ScaleCall ==
    /\ call.fn = "_calculate_output_float_and_condition"
    /\ ~ret.done
    /\ ret' = Returned(CalculateOutputFloatAndCondition(FInt(call.input_float),
                                                        call.output_skin, call.input_skin))
    /\ UNCHANGED <<storeVars, call, finderVars, clientVars>>

ScaleNext == ScaleCall

SpecScale == ScaleInit /\ [][ScaleNext]_vars

(***************************************************************************)
(* Specification SpecIngest: a row of comprehensive_skins, whatever its    *)
(* float range, read into the core by get_skins_by_collection_and_rarity   *)
(* and by build_market_data_from_comprehensive.                            *)
(***************************************************************************)
N_Charlie == MarketHashName("", "Glock-18", "Charlie", "Field-Tested")

RangeEnds == {0, 60, 150, 380, 450, 800, 1000}

IngestInit ==
    /\ StoreInit
    /\ FinderIdle
    /\ call \in [fn : {"get_skins_by_collection_and_rarity",
                       "build_market_data_from_comprehensive"},
                 row : {Row("Charlie", "Mil-Spec Grade", N_Charlie, lo, hi) :
                           lo \in RangeEnds, hi \in RangeEnds}]
    /\ ret = NoReturn

GetSkinsCall ==
    /\ call.fn = "get_skins_by_collection_and_rarity"
    /\ ~ret.done
    /\ ret' = Returned(SelectRows(Append(Catalog, call.row), call.row.collection,
                                  call.row.rarity))
    /\ UNCHANGED <<storeVars, call, finderVars, clientVars>>

BuildMarketDataCall ==
    /\ call.fn = "build_market_data_from_comprehensive"
    /\ ~ret.done
    /\ ret' = Returned(BuildMarketData(Append(Catalog, call.row), [n \in Names |-> None]))
    /\ UNCHANGED <<storeVars, call, finderVars, clientVars>>

IngestNext == GetSkinsCall \/ BuildMarketDataCall

SpecIngest == IngestInit /\ [][IngestNext]_vars

(***************************************************************************)
(* Specification SpecGuaranteed: find_guaranteed_profit_trades over a      *)
(* catalog that lists, as the real one does, the StatTrak variants of a    *)
(* skin next to the plain ones.                                            *)
(***************************************************************************)
DeltaIn(tag, wear) == MarketHashName(tag, "P250", "Delta In", wear)
DeltaOut(tag) == MarketHashName(tag, "AK-47", "Delta Out", "Field-Tested")

DeltaInputs ==
    [i \in 1..10 |->
        Row("Delta", "Mil-Spec Grade",
            DeltaIn(IF i <= 5 THEN "" ELSE "StatTrak", WearConditions[((i - 1) % 5) + 1]),
            0, 1000)]

GuaranteedCatalog ==
    DeltaInputs \o << Row("Delta", "Restricted", DeltaOut(""), 0, 1000),
                      Row("Delta", "Restricted", DeltaOut("StatTrak"), 0, 1000) >>

GuaranteedNames == {GuaranteedCatalog[i].market_hash_name : i \in 1..Len(GuaranteedCatalog)}

\* get_possible_outputs: every row one rarity up, of any collection, souvenir = 0
GetPossibleOutputs(table, input_rarity) ==
    SelectSeq(table, LAMBDA r : r.rarity = RarityProgression(input_rarity)
                                /\ r.market_hash_name.tag # "Souvenir")

\* get_collections_by_rarity over the table (one collection, so the order is moot)
CollectionsByRarity(table, rarity) ==
    SelectSeq(<<"Delta">>,
              LAMBDA c : \E i \in 1..Len(table) :
                            table[i].collection = c /\ table[i].rarity = rarity)

\* 'if target_collections:' -- None and the empty list alike are written {}
TargetFilter(collections, target_collections) ==
    IF target_collections = {} THEN collections
    ELSE SelectSeq(collections, LAMBDA c : c \in target_collections)

\* lines 527-530: the quotes of the names the cache does not hold are fetched
GuaranteedFetch(prices, quotes, all_names) ==
    [n \in DOMAIN prices |->
        IF n \in all_names /\ prices[n] = None THEN quotes[n] ELSE prices[n]]

\* lines 536-540
GuaranteedCheaper(skin, price, max_input_price, cheapest) ==
    IF /\ Truthy(price)
       /\ WithinMaxInputPrice(price, max_input_price)
       /\ (cheapest.price = None \/ price < cheapest.price)
    THEN [skin |-> skin, price |-> price]
    ELSE cheapest

RECURSIVE GuaranteedCheapestInput(_, _, _, _)
GuaranteedCheapestInput(prices, input_skins, max_input_price, cheapest) ==
    IF input_skins = <<>> THEN cheapest
    ELSE GuaranteedCheapestInput(prices, Tail(input_skins), max_input_price,
             GuaranteedCheaper(Head(input_skins),
                               CachedGet(prices, Head(input_skins).market_hash_name),
                               max_input_price, cheapest))

\* lines 548-556: the lowest truthy output quote, None when there is none
CheapestOutputPrice(prices, output_skins) ==
    IF \A i \in 1..Len(output_skins) :
          ~Truthy(CachedGet(prices, output_skins[i].market_hash_name))
    THEN None
    ELSE CHOOSE p \in {CachedGet(prices, output_skins[i].market_hash_name) :
                          i \in 1..Len(output_skins)} :
            /\ Truthy(p)
            /\ \A j \in 1..Len(output_skins) :
                  Truthy(CachedGet(prices, output_skins[j].market_hash_name))
                      => p <= CachedGet(prices, output_skins[j].market_hash_name)

\* lines 585-596: every possible output is listed, priced 0, with an equal share
GuaranteedOutputObjects(output_skins) ==
    [i \in 1..Len(output_skins) |->
        OutputSkin(SkinObj(output_skins[i].market_hash_name, output_skins[i].rarity, 0, "Mixed"),
                   Frac(1, Len(output_skins)))]

\* lines 564-604
GuaranteedResult(cheapest, output_skins, collection, net_output_value) ==
    [kind |-> "guaranteed", collection1 |-> collection, collection2 |-> None,
     split_ratio |-> <<10, 0>>,
     skins |-> Repeat(SkinObj(cheapest.skin.market_hash_name, cheapest.skin.rarity,
                              cheapest.price, collection), INPUTS_PER_TRADE),
     total_cost |-> cheapest.price * INPUTS_PER_TRADE,
     output_skins |-> GuaranteedOutputObjects(output_skins),
     expected_output_price |-> net_output_value,
     raw_profit |-> ExpectedProfit(net_output_value, cheapest.price * INPUTS_PER_TRADE),
     guaranteed_profit |-> TRUE, min_output_price |-> 0]

GuaranteedValued(cheapest, cheapest_output_price, output_skins, collection) ==
    IF cheapest.price = None \/ cheapest_output_price = None THEN NoResult
    ELSE IF FLess(FInt(0), ExpectedProfit(AfterFee(FInt(cheapest_output_price)),
                                          cheapest.price * INPUTS_PER_TRADE))
    THEN GuaranteedResult(cheapest, output_skins, collection,
                          AfterFee(FInt(cheapest_output_price)))
    ELSE NoResult

\* _find_guaranteed_profit_for_collection over the cache after the fetch
FindGuaranteedProfitForCollection(prices, input_skins, output_skins, collection, max_input_price) ==
    GuaranteedValued(GuaranteedCheapestInput(prices, input_skins, max_input_price, NoCheapest),
                     CheapestOutputPrice(prices, output_skins),
                     output_skins, collection)

\* the (input rarity, collection) pairs in the order of the two loops
RECURSIVE GuaranteedOrder(_, _, _)
GuaranteedOrder(table, rarities, target_collections) ==
    IF rarities = <<>> THEN <<>>
    ELSE (IF GetPossibleOutputs(table, Head(rarities)) = <<>> THEN <<>>
          ELSE [i \in 1..Len(TargetFilter(CollectionsByRarity(table, Head(rarities)),
                                          target_collections)) |->
                   [rarity |-> Head(rarities),
                    collection |-> TargetFilter(CollectionsByRarity(table, Head(rarities)),
                                                target_collections)[i]]])
         \o GuaranteedOrder(table, Tail(rarities), target_collections)

GuaranteedAppend(found, result) == IF result = NoResult THEN found ELSE Append(found, result)

RECURSIVE GuaranteedLoop(_, _, _, _, _, _)
GuaranteedLoop(table, todo, prices, quotes, max_input_price, found) ==
    IF todo = <<>> THEN [opportunities |-> found, prices |-> prices]
    ELSE IF Len(SelectRows(table, Head(todo).collection, Head(todo).rarity)) < INPUTS_PER_TRADE
    THEN GuaranteedLoop(table, Tail(todo), prices, quotes, max_input_price, found)
    ELSE GuaranteedLoop(table, Tail(todo),
             GuaranteedFetch(prices, quotes,
                 NamesOf(SelectRows(table, Head(todo).collection, Head(todo).rarity))
                     \cup NamesOf(GetPossibleOutputs(table, Head(todo).rarity))),
             quotes, max_input_price,
             GuaranteedAppend(found,
                 FindGuaranteedProfitForCollection(
                     GuaranteedFetch(prices, quotes,
                         NamesOf(SelectRows(table, Head(todo).collection, Head(todo).rarity))
                             \cup NamesOf(GetPossibleOutputs(table, Head(todo).rarity))),
                     SelectRows(table, Head(todo).collection, Head(todo).rarity),
                     GetPossibleOutputs(table, Head(todo).rarity),
                     Head(todo).collection, max_input_price)))

FindGuaranteedProfitTrades(table, prices, quotes, max_input_price, target_collections) ==
    GuaranteedLoop(table, GuaranteedOrder(table, RaritiesToCheck, target_collections),
                   prices, quotes, max_input_price, <<>>)

QuotesOf(in_plain, in_st, in_st_bs, out_plain, out_st) ==
    [n \in GuaranteedNames |->
        CASE n = DeltaIn("", "Field-Tested") -> in_plain
          [] n = DeltaIn("StatTrak", "Field-Tested") -> in_st
          [] n = DeltaIn("StatTrak", "Battle-Scarred") -> in_st_bs
          [] n = DeltaOut("") -> out_plain
          [] n = DeltaOut("StatTrak") -> out_st
          [] OTHER -> None]

GuaranteedQuotes ==
    {QuotesOf(in_plain, in_st, in_st_bs, out_plain, out_st) :
        in_plain \in {None, 270}, in_st \in {None, 100, 270}, in_st_bs \in {None, 100},
        out_plain \in {None, 2000, 4000}, out_st \in {None, 4000}}

TargetCollections == {{}, {"Delta"}, {"Echo"}}

GuaranteedInit ==
    /\ StoreInit
    /\ oracle \in GuaranteedQuotes
    /\ steam_market = [n \in Names |-> NoScript]
    /\ cached_prices = [n \in GuaranteedNames |-> None]
    /\ cursor = 0
    /\ skipped = 0
    /\ opportunities = <<>>
    /\ errors = <<>>
    /\ ClientsIdle
    /\ passes = NoPasses
    /\ call \in [fn : {"find_guaranteed_profit_trades"}, max_input_price : MaxInputPrices,
                 target_collections : TargetCollections, limit : Limits]
    /\ ret = NoReturn

FindGuaranteedCall ==
    /\ call.fn = "find_guaranteed_profit_trades"
    /\ ~ret.done
    /\ \E out \in {FindGuaranteedProfitTrades(GuaranteedCatalog, cached_prices, oracle,
                                              call.max_input_price, call.target_collections)} :
          /\ cached_prices' = out.prices
          /\ ret' = Returned(Take(SortByExpectedProfit(out.opportunities), call.limit))
    /\ UNCHANGED <<storeVars, call, oracle, steam_market, clientVars, passes, cursor, skipped, opportunities,
                   errors>>

GuaranteedNext == FindGuaranteedCall

SpecGuaranteed == GuaranteedInit /\ [][GuaranteedNext]_vars

(***************************************************************************)
(* TradeUpCalculator (calculator.py) over the MarketData that              *)
(* build_market_data_from_comprehensive hands it.  MarketData is written   *)
(* as the sequence of its Skin objects; collections and rarity groups are  *)
(* read off it in order of first appearance, as the dicts are.  Decimal    *)
(* quotients are written as exact rationals.                               *)
(***************************************************************************)
RARITY_MAPPING ==
    << [from |-> "Mil-Spec", to |-> "Restricted"],
       [from |-> "Restricted", to |-> "Classified"],
       [from |-> "Classified", to |-> "Covert"] >>

MAX_RESULTS == 50

RECURSIVE CollectionOrder(_, _)
CollectionOrder(market_data, seen) ==
    IF market_data = <<>> THEN seen
    ELSE CollectionOrder(Tail(market_data),
             IF \E i \in 1..Len(seen) : seen[i] = Head(market_data).collection
             THEN seen ELSE Append(seen, Head(market_data).collection))

SkinsByRarity(market_data, collection_name, rarity) ==
    SelectSeq(market_data, LAMBDA s : s.collection = collection_name /\ s.rarity = rarity)

\* _get_input_skins, for one collection
InputSkinsOf(market_data, collection_name, rarity, max_price, target_collections) ==
    IF target_collections # {} /\ collection_name \notin target_collections THEN <<>>
    ELSE SelectSeq(SkinsByRarity(market_data, collection_name, rarity),
                   LAMBDA s : ~(Truthy(max_price) /\ s.price > max_price) /\ s.marketable)

RECURSIVE ConcatInputs(_, _, _, _, _)
ConcatInputs(market_data, collections, rarity, max_price, target_collections) ==
    IF collections = <<>> THEN <<>>
    ELSE InputSkinsOf(market_data, Head(collections), rarity, max_price, target_collections)
         \o ConcatInputs(market_data, Tail(collections), rarity, max_price, target_collections)

GetInputSkins(market_data, rarity, max_price, target_collections) ==
    ConcatInputs(market_data, CollectionOrder(market_data, <<>>), rarity, max_price,
                 target_collections)

\* skins_by_collection[collection]
SkinsOfCollection(input_skins, collection_name) ==
    SelectSeq(input_skins, LAMBDA s : s.collection = collection_name)

\* itertools.combinations_with_replacement(lo..n, k), in its order
RECURSIVE CombosFrom(_, _, _)
RECURSIVE CombosWithReplacement(_, _, _)
CombosFrom(i, n, k) ==
    IF i > n THEN <<>>
    ELSE [j \in 1..Len(CombosWithReplacement(i, n, k - 1)) |->
             <<i>> \o CombosWithReplacement(i, n, k - 1)[j]]
         \o CombosFrom(i + 1, n, k)
CombosWithReplacement(lo, n, k) == IF k = 0 THEN << <<>> >> ELSE CombosFrom(lo, n, k)

RECURSIVE CombosUpTo(_, _, _)
CombosUpTo(num_collections, stop, n) ==
    IF num_collections >= stop THEN <<>>
    ELSE CombosWithReplacement(1, n, num_collections) \o CombosUpTo(num_collections + 1, stop, n)

\* range(1, min(4, len(collections) + 1)), as tuples of collection names
CollectionCombos(collections) ==
    [i \in 1..Len(CombosUpTo(1, IF 4 < Len(collections) + 1 THEN 4 ELSE Len(collections) + 1,
                             Len(collections))) |->
        [j \in 1..Len(CombosUpTo(1, IF 4 < Len(collections) + 1 THEN 4
                                    ELSE Len(collections) + 1, Len(collections))[i]) |->
            collections[CombosUpTo(1, IF 4 < Len(collections) + 1 THEN 4
                                      ELSE Len(collections) + 1, Len(collections))[i][j]]]]

CountIn(collection_combo, collection_name) ==
    Cardinality({i \in 1..Len(collection_combo) : collection_combo[i] = collection_name})

\* collection_counts after the remainder went to the first collection
CollectionCount(collection_combo, collection_name) ==
    CountIn(collection_combo, collection_name)
    + (IF collection_name = collection_combo[1] /\ Len(collection_combo) < INPUTS_PER_TRADE
       THEN INPUTS_PER_TRADE - Len(collection_combo) ELSE 0)

\* the keys of collection_counts, in insertion order
RECURSIVE ComboCollections(_, _)
ComboCollections(collection_combo, seen) ==
    IF collection_combo = <<>> THEN seen
    ELSE ComboCollections(Tail(collection_combo),
             IF \E i \in 1..Len(seen) : seen[i] = Head(collection_combo)
             THEN seen ELSE Append(seen, Head(collection_combo)))

RECURSIVE InsertByPrice(_, _)
InsertByPrice(sorted, s) ==
    IF sorted = <<>> THEN <<s>>
    ELSE IF s.price < Head(sorted).price THEN <<s>> \o sorted
    ELSE <<Head(sorted)>> \o InsertByPrice(Tail(sorted), s)

RECURSIVE SortedByPrice(_, _)
SortedByPrice(todo, sorted) ==
    IF todo = <<>> THEN sorted ELSE SortedByPrice(Tail(todo), InsertByPrice(sorted, Head(todo)))

\* sorted(available_skins, key=price)[:count]
CheapestSkins(available_skins, count) == Take(SortedByPrice(available_skins, <<>>), count)

NotEnoughSkins == [enough |-> FALSE]

\* lines 193-203: the input_config, unless a collection is short of skins
RECURSIVE SelectCheapest(_, _, _, _)
SelectCheapest(todo, collection_combo, input_skins, input_config) ==
    IF todo = <<>> THEN [enough |-> TRUE, input_config |-> input_config]
    ELSE IF Len(SkinsOfCollection(input_skins, Head(todo)))
            < CollectionCount(collection_combo, Head(todo))
    THEN NotEnoughSkins
    ELSE SelectCheapest(Tail(todo), collection_combo, input_skins,
             input_config \o CheapestSkins(SkinsOfCollection(input_skins, Head(todo)),
                                           CollectionCount(collection_combo, Head(todo))))

RECURSIVE SumPrices(_)
SumPrices(skins) == IF skins = <<>> THEN 0 ELSE Head(skins).price + SumPrices(Tail(skins))

\* total_weight: every skin of the output rarity in the input collections
RECURSIVE TotalWeight(_, _, _)
TotalWeight(market_data, input_collections, output_rarity) ==
    IF input_collections = <<>> THEN 0
    ELSE Len(SkinsByRarity(market_data, Head(input_collections), output_rarity))
         + TotalWeight(market_data, Tail(input_collections), output_rarity)

RECURSIVE MarketableOutputs(_, _, _)
MarketableOutputs(market_data, input_collections, output_rarity) ==
    IF input_collections = <<>> THEN <<>>
    ELSE SelectSeq(SkinsByRarity(market_data, Head(input_collections), output_rarity),
                   LAMBDA s : s.marketable)
         \o MarketableOutputs(market_data, Tail(input_collections), output_rarity)

\* lines 270-277: (collection_weight / total_weight) / collection_weight
SkinProbability(possible, collection_name, total_weight) ==
    FDiv(Frac(Len(SkinsOfCollection(possible, collection_name)), total_weight),
         FInt(Len(SkinsOfCollection(possible, collection_name))))

WithProbabilities(possible, total_weight) ==
    [i \in 1..Len(possible) |->
        OutputSkin(possible[i], SkinProbability(possible, possible[i].collection, total_weight))]

\* _calculate_outputs; input_collections is the set in the order it is iterated
CalculateOutputs(market_data, input_collections, output_rarity) ==
    IF TotalWeight(market_data, input_collections, output_rarity) = 0 THEN <<>>
    ELSE WithProbabilities(MarketableOutputs(market_data, input_collections, output_rarity),
                           TotalWeight(market_data, input_collections, output_rarity))

MaxPrice(outs) ==
    CHOOSE p \in {outs[i].skin.price : i \in 1..Len(outs)} :
        \A q \in {outs[i].skin.price : i \in 1..Len(outs)} : q <= p

\* _calculate_trade_up_value: (expected_profit, min_profit, max_profit, guaranteed_profit)
CalculateTradeUpValue(possible_outputs, total_cost) ==
    [expected_profit |-> FSub(SumExpected(possible_outputs), FInt(total_cost)),
     min_profit |-> MinPrice(possible_outputs) - total_cost,
     max_profit |-> MaxPrice(possible_outputs) - total_cost,
     guaranteed_profit |-> IF MinPrice(possible_outputs) - total_cost > 0
                           THEN MinPrice(possible_outputs) - total_cost ELSE None]

TradeUpCandidate(input_config, total_cost, value, possible_outputs, collections_used) ==
    [input_skins |-> input_config, total_cost |-> total_cost,
     expected_value |-> value.expected_profit, min_profit |-> value.min_profit,
     max_profit |-> value.max_profit, guaranteed_profit |-> value.guaranteed_profit,
     possible_outputs |-> possible_outputs, collections_used |-> collections_used]

\* lines 210-216: the minimum profit filter
BelowMinProfit(value, min_profit) ==
    /\ FLess(value.expected_profit, FInt(min_profit))
    /\ (value.guaranteed_profit = None \/ value.guaranteed_profit < min_profit)

CandidateOf(input_config, possible_outputs, collections_used, min_profit) ==
    IF possible_outputs = <<>> THEN NoResult
    ELSE IF BelowMinProfit(CalculateTradeUpValue(possible_outputs, SumPrices(input_config)),
                           min_profit)
    THEN NoResult
    ELSE TradeUpCandidate(input_config, SumPrices(input_config),
                          CalculateTradeUpValue(possible_outputs, SumPrices(input_config)),
                          possible_outputs, collections_used)

\* the set collections_used in the order this process iterates it
UsedInOrder(collections_used, set_order) ==
    SelectSeq(set_order, LAMBDA c : \E i \in 1..Len(collections_used) : collections_used[i] = c)

EvaluateSelected(market_data, selected, collections_used, output_rarity, min_profit) ==
    IF ~selected.enough THEN NoResult
    ELSE CandidateOf(selected.input_config,
                     CalculateOutputs(market_data, collections_used, output_rarity),
                     collections_used, min_profit)

\* _evaluate_collection_combination
EvaluateCollectionCombination(market_data, set_order, collection_combo, input_skins, output_rarity, min_profit) ==
    EvaluateSelected(market_data,
        SelectCheapest(ComboCollections(collection_combo, <<>>), collection_combo,
                       input_skins, <<>>),
        UsedInOrder(ComboCollections(collection_combo, <<>>), set_order),
        output_rarity, min_profit)

RECURSIVE EvaluateCombos(_, _, _, _, _, _)
EvaluateCombos(market_data, set_order, combos, input_skins, output_rarity, min_profit) ==
    IF combos = <<>> THEN <<>>
    ELSE (IF EvaluateCollectionCombination(market_data, set_order, Head(combos), input_skins,
                                           output_rarity, min_profit) = NoResult
          THEN <<>>
          ELSE << EvaluateCollectionCombination(market_data, set_order, Head(combos),
                                                input_skins, output_rarity, min_profit) >>)
         \o EvaluateCombos(market_data, set_order, Tail(combos), input_skins, output_rarity,
                           min_profit)

\* the keys of skins_by_collection, in insertion order
InputCollections(input_skins) == CollectionOrder(input_skins, <<>>)

\* _generate_trade_up_combinations
GenerateTradeUpCombinations(market_data, set_order, input_skins, output_rarity, min_profit) ==
    EvaluateCombos(market_data, set_order, CollectionCombos(InputCollections(input_skins)),
                   input_skins, output_rarity, min_profit)

RECURSIVE CandidatesOfRarities(_, _, _, _, _, _)
CandidatesOfRarities(market_data, set_order, mapping, min_profit, max_input_price, target_collections) ==
    IF mapping = <<>> THEN <<>>
    ELSE (IF Len(GetInputSkins(market_data, Head(mapping).from, max_input_price,
                               target_collections)) < INPUTS_PER_TRADE
          THEN <<>>
          ELSE GenerateTradeUpCombinations(market_data, set_order,
                   GetInputSkins(market_data, Head(mapping).from, max_input_price,
                                 target_collections),
                   Head(mapping).to, min_profit))
         \o CandidatesOfRarities(market_data, set_order, Tail(mapping), min_profit,
                                 max_input_price, target_collections)

NO_GUARANTEE == -99999900

GuaranteeKey(c) == IF c.guaranteed_profit = None THEN NO_GUARANTEE ELSE c.guaranteed_profit

\* the sort key (guaranteed_profit or -999999, expected_value), compared as tuples
KeyLess(a, b) ==
    \/ GuaranteeKey(a) < GuaranteeKey(b)
    \/ GuaranteeKey(a) = GuaranteeKey(b) /\ FLess(a.expected_value, b.expected_value)

RECURSIVE InsertByKey(_, _)
InsertByKey(sorted, c) ==
    IF sorted = <<>> THEN <<c>>
    ELSE IF KeyLess(Head(sorted), c) THEN <<c>> \o sorted
    ELSE <<Head(sorted)>> \o InsertByKey(Tail(sorted), c)

RECURSIVE SortCandidates(_, _)
SortCandidates(todo, sorted) ==
    IF todo = <<>> THEN sorted ELSE SortCandidates(Tail(todo), InsertByKey(sorted, Head(todo)))

\* TradeUpCalculator.find_profitable_tradeups
FindProfitableTradeups(market_data, set_order, min_profit, max_input_price, target_collections) ==
    Take(SortCandidates(CandidatesOfRarities(market_data, set_order, RARITY_MAPPING, min_profit,
                                             max_input_price, target_collections), <<>>),
         MAX_RESULTS)

(***************************************************************************)
(* Specification SpecCalculator: find_profitable_tradeups of a calculator  *)
(* whose MarketData was built from a catalog of two collections, Echo and  *)
(* Foxtrot, with Restricted inputs and k_C Classified outputs each.        *)
(***************************************************************************)
EchoIn(i) == MarketHashName("", IF i <= 5 THEN "Galil AR" ELSE "FAMAS", "Echo In", WearConditions[((i - 1) % 5) + 1])
FoxtrotIn(i) == MarketHashName("", "UMP-45", "Foxtrot In", WearConditions[i])
EchoOut(i) == MarketHashName("", "AK-47", "Echo Out", WearConditions[i])
FoxtrotOut(i) == MarketHashName("", "AWP", "Foxtrot Out", WearConditions[i])

CalculatorCatalog(k_echo, k_foxtrot) ==
    [i \in 1..10 |-> Row("Echo", "Restricted", EchoIn(i), 0, 1000)]
    \o [i \in 1..2 |-> Row("Foxtrot", "Restricted", FoxtrotIn(i), 0, 1000)]
    \o [i \in 1..k_echo |-> Row("Echo", "Classified", EchoOut(i), 0, 1000)]
    \o [i \in 1..k_foxtrot |-> Row("Foxtrot", "Classified", FoxtrotOut(i), 0, 1000)]

OutputCounts == {0, 2}

\* pricing_data: the inputs at a fixed quote, the outputs at one of the offers
CalculatorPricing(echo_out, foxtrot_out, foxtrot_in) ==
    [n \in {EchoIn(i) : i \in 1..10} \cup {FoxtrotIn(i) : i \in 1..2}
           \cup {EchoOut(i) : i \in 1..2} \cup {FoxtrotOut(i) : i \in 1..2} |->
        IF n \in {EchoIn(i) : i \in 1..10} THEN 200
        ELSE IF n \in {FoxtrotIn(i) : i \in 1..2} THEN foxtrot_in
        ELSE IF n = EchoOut(1) THEN echo_out
        ELSE IF n = EchoOut(2) THEN 4000
        ELSE IF n = FoxtrotOut(1) THEN foxtrot_out
        ELSE None]

CalculatorMarkets ==
    {BuildMarketData(CalculatorCatalog(k_echo, k_foxtrot),
                     CalculatorPricing(echo_out, foxtrot_out, foxtrot_in)) :
        k_echo \in OutputCounts, k_foxtrot \in OutputCounts,
        echo_out \in {1000, 4000}, foxtrot_out \in {1000, 6000}, foxtrot_in \in {100, 400}}

SetOrders == {<<"Echo", "Foxtrot">>, <<"Foxtrot", "Echo">>}

CalculatorInit ==
    /\ StoreInit
    /\ FinderIdle
    /\ call \in [fn : {"find_profitable_tradeups"}, market_data : CalculatorMarkets,
                 set_order : SetOrders, min_profit : {0, 1000},
                 max_input_price : {None, 300}, target_collections : {{}, {"Echo"}}]
    /\ ret = NoReturn

FindProfitableTradeupsCall ==
    /\ call.fn = "find_profitable_tradeups"
    /\ ~ret.done
    /\ ret' = Returned(FindProfitableTradeups(call.market_data, call.set_order, call.min_profit,
                                              call.max_input_price, call.target_collections))
    /\ UNCHANGED <<storeVars, call, finderVars, clientVars>>

CalculatorNext == FindProfitableTradeupsCall

SpecCalculator == CalculatorInit /\ [][CalculatorNext]_vars

(***************************************************************************)
(* Specification SpecFailing: the sweep of find_profitable_trades when the *)
(* pricing of a configuration can raise.  Each call of the two calculate   *)
(* methods stands in a try block whose except clause logs the error.       *)
(***************************************************************************)
MarketableOf(collection, rarity) ==
    SelectSeq(GetSkinsByCollectionAndRarity(collection, rarity), IsMarketableSkin)

NamesIfAll(lists) ==
    IF \E i \in 1..Len(lists) : lists[i] = <<>> THEN {}
    ELSE UNION {NamesOf(lists[i]) : i \in 1..Len(lists)}

\* all_names of a configuration; empty when it returns before it prices anything
AllNames(configuration) ==
    IF RarityProgression(configuration.rarity) = "none" THEN {}
    ELSE IF configuration.kind = "single"
    THEN NamesIfAll(<<MarketableOf(configuration.primary, configuration.rarity),
                      MarketableOf(configuration.primary,
                                   RarityProgression(configuration.rarity))>>)
    ELSE NamesIfAll(<<MarketableOf(configuration.primary, configuration.rarity),
                      MarketableOf(configuration.secondary, configuration.rarity),
                      MarketableOf(configuration.primary,
                                   RarityProgression(configuration.rarity)),
                      MarketableOf(configuration.secondary,
                                   RarityProgression(configuration.rarity))>>)

MissingPrices(prices, all_names) == {n \in all_names : CachedGet(prices, n) = None}

\* the store after a pass that raised when it came to item reached + 1 of the
\* quotes fetched; reached = 0 is also fetch_prices_for_items itself raising
RaisedIn(rec, prices, quotes, answers, all_names, reached, now) ==
    ValidatePrices(rec, SubSeq(CatalogOrder, 1, reached),
                   FetchPricesForItems(quotes, MissingPrices(prices, all_names)),
                   RarityOf, answers, now).rec

MaxErrors == 2

LogError_Propagates(position) ==
    /\ errors' = Append(errors, position)
    /\ ret' = [done |-> TRUE, value |-> <<>>, raised |-> TRUE]
    /\ UNCHANGED <<cursor, skipped, opportunities>>

\* lines 131-132 and 157-158: the error is logged and the loop goes on
LogError(position) ==
    /\ errors' = Append(errors, position)
    /\ cursor' = cursor + 1
    /\ UNCHANGED <<skipped, opportunities, ret>>

\* a single-collection configuration whose pricing raises: lines 116-132
SingleFails ==
    /\ Sweeping
    /\ cursor <= Len(SweepOrder)
    /\ SweepOrder[cursor].kind = "single"
    /\ Len(errors) < MaxErrors
    /\ MissingPrices(cached_prices, AllNames(SweepOrder[cursor])) # {}
    /\ \E reached \in 0..(Len(CatalogOrder) - 1) :
          record' = RaisedIn(record, cached_prices, oracle, steam_market,
                             AllNames(SweepOrder[cursor]), reached, clock)
    /\ LogError(cursor)
    /\ lastOp' = "error"
    /\ UNCHANGED <<clock, passLog, call, oracle, steam_market, clientVars, passes, cached_prices>>

\* a mixed-collection configuration whose pricing raises: lines 143-158
MixedFails ==
    /\ Sweeping
    /\ cursor <= Len(SweepOrder)
    /\ SweepOrder[cursor].kind = "mixed"
    /\ Len(errors) < MaxErrors
    /\ MissingPrices(cached_prices, AllNames(SweepOrder[cursor])) # {}
    /\ \E reached \in 0..(Len(CatalogOrder) - 1) :
          record' = RaisedIn(record, cached_prices, oracle, steam_market,
                             AllNames(SweepOrder[cursor]), reached, clock)
    /\ LogError(cursor)
    /\ lastOp' = "error"
    /\ UNCHANGED <<clock, passLog, call, oracle, steam_market, clientVars, passes, cached_prices>>

FailingNext == FinderNext \/ SingleFails \/ MixedFails

\* the worlds of SpecFinder in which Steam holds a price for every item
FailingInit ==
    /\ FinderInit
    /\ \A n \in Names : steam_market[n] # NoScript

SpecFailing == FailingInit /\ [][FailingNext]_vars

(***************************************************************************)
(* Specification SpecRerun: the finder run a second time, by a new process *)
(* over the same database.  The ValidationRecords written by the first     *)
(* run are still there; _cached_prices starts empty again.                 *)
(***************************************************************************)
MaxRuns == 2

RerunQuotes ==
    [n \in Names |->
        CASE n = N_AlphaIn -> 270
          [] n = N_BravoIn -> 100
          [] n = N_BravoOne -> 2000
          [] OTHER -> 4000]

\* Steam holds the oracle's prices, but for Bravo's input possibly 1.10
RerunSteamHolds ==
    {[n \in Names |-> IF n = N_BravoIn THEN bravo_in ELSE RerunQuotes[n]] :
        bravo_in \in {100, 110}}

RerunInit ==
    /\ StoreInit
    /\ oracle = RerunQuotes
    /\ \E h \in RerunSteamHolds : steam_market = [n \in Names |-> SteamScriptFor(h[n])]
    /\ cached_prices = [n \in Names |-> None]
    /\ cursor = 0
    /\ skipped = 0
    /\ opportunities = <<>>
    /\ errors = <<>>
    /\ ClientsIdle
    /\ passes = NoPasses
    /\ call = NoCall
    /\ ret = NoReturn

\* ComprehensiveTradeUpFinder(): a new finder on a later day, lines 34-49
NewFinder ==
    /\ call # NoCall
    /\ ret.done
    /\ clock + 1 < MaxRuns
    /\ clock' = clock + 1
    /\ cached_prices' = [n \in Names |-> None]
    /\ cursor' = 0
    /\ skipped' = 0
    /\ opportunities' = <<>>
    /\ errors' = <<>>
    /\ call' = NoCall
    /\ ret' = NoReturn
    /\ lastOp' = "init"
    /\ UNCHANGED <<record, passLog, oracle, steam_market, clientVars, passes>>

RerunNext == FinderNext \/ NewFinder

SpecRerun == RerunInit /\ [][RerunNext]_vars

(***************************************************************************)
(* Specification SpecConcurrent: two _validate_prices coroutines on one    *)
(* event loop over the same database.  A coroutine runs without            *)
(* interruption from one await to the next: it reads the record of an item *)
(* and, if the item needs validating, is suspended in                      *)
(* validate_and_correct_price (asyncio.sleep, then the request to Steam);  *)
(* when it resumes with Steam's answer it writes the record and goes on to *)
(* the next await.                                                         *)
(***************************************************************************)
PassIds == {1, 2}

NewPass(order, prices) ==
    [pc |-> "created", todo |-> order, prices |-> prices,
     validated |-> [n \in Names |-> None], lookups |-> [n \in Names |-> 0]]

\* lines 834-853: the item goes to validate_and_correct_price
NeedsSteam(rec, name) ==
    /\ name.tag # "Souvenir"
    /\ ~IsNegativelyCached(GetPriceValidationStatus(rec, name))
    /\ ~IsPositivelyCached(GetPriceValidationStatus(rec, name))

\* the price the loop takes from the store for an item it does not validate
FromStore(rec, name, validated) ==
    IF name.tag # "Souvenir" /\ IsPositivelyCached(GetPriceValidationStatus(rec, name))
    THEN [validated EXCEPT ![name] = GetPriceValidationStatus(rec, name).steam_price]
    ELSE validated

\* the loop from its current item up to the next await, or to its end
RECURSIVE RunToAwait(_, _)
RunToAwait(rec, pass) ==
    IF pass.todo = <<>> THEN [pass EXCEPT !.pc = "done"]
    ELSE IF pass.prices[Head(pass.todo)] = None
    THEN RunToAwait(rec, [pass EXCEPT !.todo = Tail(pass.todo)])
    ELSE IF NeedsSteam(rec, Head(pass.todo)) THEN [pass EXCEPT !.pc = "awaiting"]
    ELSE RunToAwait(rec, [pass EXCEPT !.todo = Tail(pass.todo),
                                      !.validated = FromStore(rec, Head(pass.todo),
                                                              pass.validated)])

\* lines 858-878: the record written for the item once Steam has answered
Written(rec, name, price, validated_price, now) ==
    IF validated_price # None
    THEN MarkPriceValidationStatus(rec, name, "valid", validated_price,
                                   DiscrepancyPercent(price, validated_price), now)
    ELSE MarkRejected(rec, name, now)

Answered(pass, name, validated_price) ==
    [pass EXCEPT !.todo = Tail(pass.todo),
                 !.lookups[name] = pass.lookups[name] + 1,
                 !.validated[name] = validated_price]

SteamValidated(pass, replies) ==
    RuntimeValidate(pass.prices[Head(pass.todo)],
                    GetSteamMarketPrice(replies[Head(pass.todo)]).price,
                    RarityOf[Head(pass.todo)], TOLERANCE_PERCENT)

PassOrders == {<<N_AlphaIn>>, <<N_AlphaIn, N_AlphaOne>>, <<N_AlphaOne, N_AlphaIn>>}

ConcurrentInit ==
    /\ StoreInit
    /\ oracle \in {[n \in Names |-> IF n \in ValidatorNames THEN q ELSE None] : q \in Quotes}
    /\ steam_market \in {[n \in Names |-> IF n = N_AlphaIn THEN a
                                          ELSE IF n = N_AlphaOne THEN b ELSE NoScript] :
                            a \in SteamScripts, b \in SteamScripts}
    /\ cached_prices = [n \in Names |-> None]
    /\ cursor = 0
    /\ skipped = 0
    /\ opportunities = <<>>
    /\ errors = <<>>
    /\ ClientsIdle
    /\ passes \in [PassIds -> {NewPass(order, oracle) : order \in PassOrders}]
    /\ call = NoCall
    /\ ret = NoReturn

\* _validate_prices is called and runs to its first await
PassStarts(p) ==
    /\ passes[p].pc = "created"
    /\ passes' = [passes EXCEPT ![p] = RunToAwait(record, passes[p])]
    /\ lastOp' = "validate_prices"
    /\ UNCHANGED <<record, clock, passLog, callVars, oracle, steam_market, clientVars, cached_prices,
                   cursor, skipped, opportunities, errors>>

\* validate_and_correct_price returns: the record is written and the loop
\* runs to its next await
PassResumes(p) ==
    /\ passes[p].pc = "awaiting"
    /\ record' = Written(record, Head(passes[p].todo), passes[p].prices[Head(passes[p].todo)],
                         SteamValidated(passes[p], steam_market), clock)
    /\ passes' = [passes EXCEPT ![p] =
                     RunToAwait(record', Answered(passes[p], Head(passes[p].todo),
                                                  SteamValidated(passes[p], steam_market)))]
    /\ lastOp' = "validate_prices"
    /\ UNCHANGED <<clock, passLog, callVars, oracle, steam_market, clientVars, cached_prices, cursor,
                   skipped, opportunities, errors>>

ConcurrentNext == \E p \in PassIds : PassStarts(p) \/ PassResumes(p)

SpecConcurrent == ConcurrentInit /\ [][ConcurrentNext]_vars

(***************************************************************************)
(* Specification SpecStore: the four methods of                            *)
(* ComprehensiveDatabaseManager that write and read the validation columns *)
(* of a row, called in any order.  Each is one SQL statement on its own    *)
(* connection.  last_price_check, which mark_price_discrepancy and         *)
(* mark_price_valid stamp, is read by none of them and is not kept.        *)
(***************************************************************************)
\* mark_price_discrepancy: status and discrepancy are set, steam_price is not
MarkPriceDiscrepancy(rec, name, discrepancy_percent, status) ==
    IF name \in DOMAIN rec
    THEN [rec EXCEPT ![name].status = status,
                     ![name].discrepancy_percent = discrepancy_percent]
    ELSE rec

\* mark_price_valid: status 'valid', discrepancy NULL, steam_price is not set
MarkPriceValid(rec, name) ==
    IF name \in DOMAIN rec
    THEN [rec EXCEPT ![name].status = "valid",
                     ![name].discrepancy_percent = NoDiscrepancy]
    ELSE rec

\* the arguments _validate_prices passes to mark_price_validation_status
ValidationAttempts ==
    {[status |-> "invalid", steam_price |-> None, discrepancy_percent |-> NoDiscrepancy]}
    \cup {[status |-> "valid", steam_price |-> qs[2],
           discrepancy_percent |-> DiscrepancyPercent(qs[1], qs[2])] :
             qs \in {qs \in Quotes \X SteamPrices :
                        WithinTolerance(qs[1], qs[2], TOLERANCE_PERCENT)}}

Discrepancies == {DiscrepancyPercent(q, s) : q \in Quotes, s \in SteamPrices}

StoreSpecInit ==
    /\ StoreInit
    /\ FinderIdle
    /\ call = NoCall
    /\ ret = NoReturn

MarkPriceValidationStatusCall ==
    /\ \E name \in ValidatorNames, attempt \in ValidationAttempts :
          /\ record' = MarkPriceValidationStatus(record, name, attempt.status,
                           attempt.steam_price, attempt.discrepancy_percent, clock)
          /\ call' = [fn |-> "mark_price_validation_status", market_hash_name |-> name]
    /\ ret' = Returned(None)
    /\ lastOp' = "mark_price_validation_status"
    /\ UNCHANGED <<clock, passLog, finderVars, clientVars>>

MarkPriceDiscrepancyCall ==
    /\ \E name \in ValidatorNames, discrepancy_percent \in Discrepancies :
          /\ record' = MarkPriceDiscrepancy(record, name, discrepancy_percent, "invalid")
          /\ call' = [fn |-> "mark_price_discrepancy", market_hash_name |-> name]
    /\ ret' = Returned(None)
    /\ lastOp' = "mark_price_discrepancy"
    /\ UNCHANGED <<clock, passLog, finderVars, clientVars>>

MarkPriceValidCall ==
    /\ \E name \in ValidatorNames :
          /\ record' = MarkPriceValid(record, name)
          /\ call' = [fn |-> "mark_price_valid", market_hash_name |-> name]
    /\ ret' = Returned(None)
    /\ lastOp' = "mark_price_valid"
    /\ UNCHANGED <<clock, passLog, finderVars, clientVars>>

GetPriceValidationStatusCall ==
    /\ \E name \in ValidatorNames :
          /\ call' = [fn |-> "get_price_validation_status", market_hash_name |-> name]
          /\ ret' = Returned(GetPriceValidationStatus(record, name))
    /\ lastOp' = "get_price_validation_status"
    /\ UNCHANGED <<record, clock, passLog, finderVars, clientVars>>

StoreNext ==
    \/ MarkPriceValidationStatusCall
    \/ MarkPriceDiscrepancyCall
    \/ MarkPriceValidCall
    \/ GetPriceValidationStatusCall

SpecStore == StoreSpecInit /\ [][StoreNext]_vars

(***************************************************************************)
(* Specification SpecRecord: the validation columns under every writer of  *)
(* the repository: _validate_prices passes, the three status writers of    *)
(* ComprehensiveDatabaseManager called directly, and                       *)
(* reset_price_validation.  The direct writers are given one attempt of    *)
(* each outcome and one discrepancy; time stands still.                    *)
(***************************************************************************)
DirectAttempts ==
    {[status |-> "invalid", steam_price |-> None, discrepancy_percent |-> NoDiscrepancy],
     [status |-> "valid", steam_price |-> 1000,
      discrepancy_percent |-> DiscrepancyPercent(840, 1000)]}

DirectDiscrepancies == {DiscrepancyPercent(840, 3000)}

\* mark_price_validation_status called outside a pass
MarkStatusDirect ==
    /\ \E name \in ValidatorNames, attempt \in DirectAttempts :
          record' = MarkPriceValidationStatus(record, name, attempt.status,
                        attempt.steam_price, attempt.discrepancy_percent, clock)
    /\ lastOp' = "mark_price_validation_status"
    /\ passLog' = BlankLog
    /\ UNCHANGED <<clock, callVars, finderVars, clientVars>>

\* mark_price_discrepancy(market_hash_name, discrepancy_percent)
MarkDiscrepancyDirect ==
    /\ \E name \in ValidatorNames, discrepancy_percent \in DirectDiscrepancies :
          record' = MarkPriceDiscrepancy(record, name, discrepancy_percent, "invalid")
    /\ lastOp' = "mark_price_discrepancy"
    /\ passLog' = BlankLog
    /\ UNCHANGED <<clock, callVars, finderVars, clientVars>>

\* mark_price_valid(market_hash_name)
MarkValidDirect ==
    /\ \E name \in ValidatorNames : record' = MarkPriceValid(record, name)
    /\ lastOp' = "mark_price_valid"
    /\ passLog' = BlankLog
    /\ UNCHANGED <<clock, callVars, finderVars, clientVars>>

RecordNext ==
    \/ ValidatePricesPass
    \/ ResetPriceValidation
    \/ MarkStatusDirect
    \/ MarkDiscrepancyDirect
    \/ MarkValidDirect

SpecRecord == Init /\ [][RecordNext]_vars

(***************************************************************************)
(* Specification SpecLimiter: one RateLimiter(max_requests, time_window)   *)
(* shared by coroutines that call acquire().  time.time() is counted in    *)
(* whole seconds; a coroutine that sleeps in acquire() resumes at its wake *)
(* time or later.  rate_limiter holds the limiter's fields, the wall       *)
(* clock, the position of each coroutine and the times at which acquire()  *)
(* returned.                                                               *)
(***************************************************************************)
Coroutines == {1, 2}

MaxTime == 6

MaxAcquires == 4

\* RateLimiter.__init__
RateLimiter(max_requests, time_window) ==
    [max_requests |-> max_requests, time_window |-> time_window, requests |-> <<>>]

NotInAcquire == [pc |-> "idle", now |-> None, wake |-> None]

\* self.requests = [req_time for req_time in self.requests if now - req_time < time_window]
RecentRequests(requests, now, time_window) ==
    SelectSeq(requests, LAMBDA req_time : now - req_time < time_window)

\* min(self.requests)
OldestRequest(requests) ==
    CHOOSE t \in {requests[i] : i \in 1..Len(requests)} :
        \A i \in 1..Len(requests) : t <= requests[i]

\* wait_time = self.time_window - (now - oldest_request) + 1
WaitTime(requests, now, time_window) == time_window - (now - OldestRequest(requests)) + 1

\* the acquire() calls begun so far
AcquiresBegun(rl) ==
    Len(rl.released) + Cardinality({c \in Coroutines : rl.acquirers[c].pc = "sleeping"})

\* acquire() up to its await, or to its return when the limit is not reached
AcquireEntered(rl, c, now, recent) ==
    IF Len(recent) >= rl.limiter.max_requests
    THEN [rl EXCEPT !.limiter.requests = recent,
                    !.acquirers[c] =
                        [pc |-> "sleeping", now |-> now,
                         wake |-> now + WaitTime(recent, now, rl.limiter.time_window)]]
    ELSE [rl EXCEPT !.limiter.requests = Append(recent, now),
                    !.released = Append(rl.released, now)]

\* acquire() after its await: self.requests.append(now), with the now of entry
AcquireResumed(rl, c) ==
    [rl EXCEPT !.limiter.requests = Append(rl.limiter.requests, rl.acquirers[c].now),
               !.acquirers[c] = NotInAcquire,
               !.released = Append(rl.released, rl.time)]

LimiterSettings == {[max_requests |-> m, time_window |-> w] : m \in {1, 2}, w \in {2, 3}}

LimiterInit ==
    /\ StoreInit
    /\ FinderAtRest
    /\ call = NoCall
    /\ ret = NoReturn
    /\ pricing_client = NoPricingClient
    /\ rate_limiter \in
          {[limiter |-> RateLimiter(l.max_requests, l.time_window), time |-> 0,
            acquirers |-> [c \in Coroutines |-> NotInAcquire], released |-> <<>>] :
              l \in LimiterSettings}

\* a coroutine calls acquire() and runs to the await or to the return
AcquireStarts(c) ==
    /\ rate_limiter.acquirers[c].pc = "idle"
    /\ AcquiresBegun(rate_limiter) < MaxAcquires
    /\ rate_limiter' =
          AcquireEntered(rate_limiter, c, rate_limiter.time,
              RecentRequests(rate_limiter.limiter.requests, rate_limiter.time,
                             rate_limiter.limiter.time_window))
    /\ lastOp' = "acquire"
    /\ UNCHANGED <<record, clock, passLog, callVars, finderVars, pricing_client>>

\* asyncio.sleep(wait_time) is over and acquire() returns
AcquireResumes(c) ==
    /\ rate_limiter.acquirers[c].pc = "sleeping"
    /\ rate_limiter.time >= rate_limiter.acquirers[c].wake
    /\ rate_limiter' = AcquireResumed(rate_limiter, c)
    /\ lastOp' = "acquire"
    /\ UNCHANGED <<record, clock, passLog, callVars, finderVars, pricing_client>>

\* a second passes
LimiterTick ==
    /\ rate_limiter.time < MaxTime
    /\ rate_limiter' = [rate_limiter EXCEPT !.time = rate_limiter.time + 1]
    /\ lastOp' = "tick"
    /\ UNCHANGED <<record, clock, passLog, callVars, finderVars, pricing_client>>

LimiterNext ==
    \/ \E c \in Coroutines : AcquireStarts(c) \/ AcquireResumes(c)
    \/ LimiterTick

SpecLimiter == LimiterInit /\ [][LimiterNext]_vars

(***************************************************************************)
(* Specification SpecSteam: one call of get_steam_market_price(name,       *)
(* retries), one loop iteration per step.  call.replies is what the Steam  *)
(* endpoint does at the successive requests; pricing_client holds the loop *)
(* variable, the seconds slept since the previous request and, for every   *)
(* request issued, its attempt and the seconds waited before it.           *)
(***************************************************************************)
ReplyKinds ==
    {"429", "non200", "unsuccessful", "unparsable", "timeout", "exception", "median", "lowest"}

ReplyOf(kind) == Reply(kind, IF kind \in {"median", "lowest"} THEN 700 ELSE None)

SteamReplies == {ReplyOf(kind) : kind \in ReplyKinds}

\* raised to the caller
Raised == [done |-> TRUE, value |-> None, raised |-> TRUE]

\* if attempt > 0: await asyncio.sleep(2 ** attempt)
Backoff(attempt) == IF attempt > 0 THEN 2 ^ attempt ELSE 0

\* status 429 before the last attempt: await asyncio.sleep(5)
SleepAfter(reply, attempt, retries) ==
    IF reply.kind = "429" /\ attempt < retries - 1 THEN 5 ELSE 0

\* except asyncio.TimeoutError / except Exception: both only log
Caught_TimeoutOnly(kind) == kind = "timeout"

Caught(kind) == kind \in {"timeout", "exception"}

\* what one iteration of the loop leaves as the result of the call
IterationResult(reply, attempt, retries) ==
    IF reply.kind \in {"timeout", "exception"}
    THEN IF Caught(reply.kind) THEN NoReturn ELSE Raised
    ELSE IF reply.kind \in {"429", "non200"}
    THEN IF attempt < retries - 1 THEN NoReturn ELSE Returned(None)
    ELSE IF reply.kind \in {"median", "lowest"}
    THEN Returned(reply.price)
    ELSE NoReturn

\* the request of this iteration, with the seconds waited before it
Requested(client, attempt) ==
    Append(client.requests, [attempt |-> attempt, waited |-> client.slept + Backoff(attempt)])

SteamInit ==
    /\ StoreInit
    /\ FinderAtRest
    /\ rate_limiter = NoLimiter
    /\ call \in [fn : {"get_steam_market_price"},
                 replies : [1..RETRIES -> SteamReplies], retries : 0..RETRIES]
    /\ ret = NoReturn
    /\ pricing_client = [attempt |-> 0, slept |-> 0, requests |-> <<>>]

\* one iteration of 'for attempt in range(retries)'
SteamIteration ==
    /\ ~ret.done
    /\ pricing_client.attempt < call.retries
    /\ pricing_client' =
          [attempt |-> pricing_client.attempt + 1,
           slept |-> SleepAfter(call.replies[pricing_client.attempt + 1],
                                pricing_client.attempt, call.retries),
           requests |-> Requested(pricing_client, pricing_client.attempt)]
    /\ ret' = IterationResult(call.replies[pricing_client.attempt + 1],
                              pricing_client.attempt, call.retries)
    /\ lastOp' = "get_steam_market_price"
    /\ UNCHANGED <<record, clock, passLog, call, finderVars, rate_limiter>>

\* the loop is over: return None
SteamLoopEnds ==
    /\ ~ret.done
    /\ pricing_client.attempt >= call.retries
    /\ ret' = Returned(None)
    /\ lastOp' = "get_steam_market_price"
    /\ UNCHANGED <<record, clock, passLog, call, finderVars, rate_limiter, pricing_client>>

SteamNext == SteamIteration \/ SteamLoopEnds

SpecSteam == SteamInit /\ [][SteamNext]_vars /\ WF_vars(SteamNext)

(***************************************************************************)
(* Specification SpecWear: _calculate_single_collection_tradeup and        *)
(* _calculate_mixed_collection_tradeup over a catalog in which an output   *)
(* item has rows for two wear conditions.  The Field-Tested row carries    *)
(* either its wear bucket or the item's own float range.  initialize() has *)
(* put a price for every name the call asks for into _cached_prices, so    *)
(* nothing is fetched or validated.                                        *)
(***************************************************************************)
GolfIn == MarketHashName("", "MP9", "Golf In", "Field-Tested")
HotelIn == MarketHashName("", "P250", "Hotel In", "Field-Tested")
GolfOne(wear) == MarketHashName("", "AK-47", "Golf One", wear)
HotelOne == MarketHashName("", "AWP", "Hotel One", "Field-Tested")

\* ORDER BY weapon_name, condition_name
WearCatalog(range) ==
    << Row("Golf", "Restricted", GolfOne("Field-Tested"), range.min_float, range.max_float),
       Row("Golf", "Restricted", GolfOne("Minimal Wear"), 70, 150),
       Row("Hotel", "Restricted", HotelOne, 150, 380),
       Row("Golf", "Mil-Spec Grade", GolfIn, 150, 380),
       Row("Hotel", "Mil-Spec Grade", HotelIn, 150, 380) >>

WearNames == {GolfIn, HotelIn, GolfOne("Field-Tested"), GolfOne("Minimal Wear"), HotelOne}

FieldTestedRanges == {FloatRange(150, 380), FloatRange(60, 800)}

WearPrices(golf_ft, golf_mw) ==
    [n \in WearNames |->
        CASE n = GolfOne("Field-Tested") -> golf_ft
          [] n = GolfOne("Minimal Wear") -> golf_mw
          [] n = HotelOne -> 2000
          [] OTHER -> 100]

\* the rows of a collection and rarity that pass _is_marketable_skin
MarketableRows(table, collection, rarity) ==
    SelectSeq(SelectRows(table, collection, rarity), IsMarketableSkin)

\* _calculate_single_collection_tradeup when no price is missing
SingleOverTable(table, rec, prices, collection, input_rarity, max_input_price, min_profit) ==
    IF \/ RarityProgression(input_rarity) = "none"
       \/ MarketableRows(table, collection, input_rarity) = <<>>
       \/ MarketableRows(table, collection, RarityProgression(input_rarity)) = <<>>
    THEN [rec |-> rec, prices |-> prices, result |-> NoResult]
    ELSE SingleAfterFetch([rec |-> rec, prices |-> prices], collection,
             MarketableRows(table, collection, input_rarity),
             DedupByBase(MarketableRows(table, collection, RarityProgression(input_rarity)),
                         {}),
             max_input_price, min_profit)

\* _calculate_mixed_collection_tradeup when no price is missing
MixedOverTable(table, rec, prices, primary_collection, secondary_collection, input_rarity, split, max_input_price, min_profit) ==
    IF \/ RarityProgression(input_rarity) = "none"
       \/ MarketableRows(table, primary_collection, input_rarity) = <<>>
       \/ MarketableRows(table, secondary_collection, input_rarity) = <<>>
       \/ MarketableRows(table, primary_collection, RarityProgression(input_rarity)) = <<>>
       \/ MarketableRows(table, secondary_collection, RarityProgression(input_rarity)) = <<>>
    THEN [rec |-> rec, prices |-> prices, result |-> NoResult]
    ELSE MixedAfterFetch([rec |-> rec, prices |-> prices], primary_collection,
             secondary_collection, split,
             MarketableRows(table, primary_collection, input_rarity),
             MarketableRows(table, secondary_collection, input_rarity),
             MarketableRows(table, primary_collection, RarityProgression(input_rarity)),
             MarketableRows(table, secondary_collection, RarityProgression(input_rarity)),
             max_input_price, min_profit)

WearCalls ==
    [fn : {"_calculate_single_collection_tradeup"}, table : {WearCatalog(r) : r \in FieldTestedRanges},
     collection : {"Golf", "Hotel"}, split : {<<INPUTS_PER_TRADE, 0>>}, min_profit : MinProfits]
    \cup [fn : {"_calculate_mixed_collection_tradeup"}, table : {WearCatalog(r) : r \in FieldTestedRanges},
          collection : {"Golf"}, split : {Splits[i] : i \in 1..Len(Splits)},
          min_profit : MinProfits]

WearInit ==
    /\ clock = 0
    /\ lastOp = "initialize"
    /\ passLog = BlankLog
    /\ record = [n \in WearNames |-> Unvalidated]
    /\ oracle = [n \in Names |-> None]
    /\ steam_market = [n \in Names |-> NoScript]
    /\ cached_prices \in {WearPrices(ft, mw) : ft \in {2000, 4000}, mw \in {None, 3000, 5000}}
    /\ cursor = 0
    /\ skipped = 0
    /\ opportunities = <<>>
    /\ errors = <<>>
    /\ passes = NoPasses
    /\ ClientsIdle
    /\ call \in WearCalls
    /\ call.fn = "_calculate_mixed_collection_tradeup" =>
          \A n \in WearNames : cached_prices[n] # None
    /\ ret = NoReturn

SingleTradeupCall ==
    /\ call.fn = "_calculate_single_collection_tradeup"
    /\ ~ret.done
    /\ ret' = Returned(SingleOverTable(call.table, record, cached_prices, call.collection,
                           "Mil-Spec Grade", None, call.min_profit).result)
    /\ lastOp' = "single"
    /\ UNCHANGED <<record, clock, passLog, call, finderVars, clientVars>>

MixedTradeupCall ==
    /\ call.fn = "_calculate_mixed_collection_tradeup"
    /\ ~ret.done
    /\ ret' = Returned(MixedOverTable(call.table, record, cached_prices, call.collection,
                           "Hotel", "Mil-Spec Grade", call.split, None,
                           call.min_profit).result)
    /\ lastOp' = "mixed"
    /\ UNCHANGED <<record, clock, passLog, call, finderVars, clientVars>>

WearNext == SingleTradeupCall \/ MixedTradeupCall

SpecWear == WearInit /\ [][WearNext]_vars

(***************************************************************************)
(* TradeUpCalculator.calculate_detailed_result and specification           *)
(* SpecDetailed: trade_up_finder turns the candidates returned by          *)
(* find_profitable_tradeups into TradeUpResult objects, over a market of   *)
(* two or three collections.                                               *)
(***************************************************************************)
\* lines 322-325: every (skin, quantity) pair of the candidate has quantity 1
InputSkinsList(candidate) == candidate.input_skins

CountOfCollection(input_skins_list, collection_name) ==
    Len(SkinsOfCollection(input_skins_list, collection_name))

\* lines 327-340: list(candidate.collections_used) and the counts of its first two elements
Collection1(collections) == IF collections # <<>> THEN collections[1] ELSE "unknown"
\* None in the place of a collection name
NoCollection == ""
Collection2(collections) == IF Len(collections) > 1 THEN collections[2] ELSE NoCollection

SplitRatio(input_skins_list, collections) ==
    << CountOfCollection(input_skins_list, Collection1(collections)),
       IF Len(collections) > 1
       THEN CountOfCollection(input_skins_list, collections[2]) ELSE 0 >>

RECURSIVE TotalFloat(_)
TotalFloat(skins) ==
    IF skins = <<>> THEN FInt(0)
    ELSE FAdd(Frac(Head(skins).float_min + Head(skins).float_max, 2), TotalFloat(Tail(skins)))

AverageFloat(input_skins_list) ==
    IF input_skins_list = <<>> THEN FInt(0)
    ELSE FDiv(TotalFloat(input_skins_list), FInt(Len(input_skins_list)))

\* sorted(..., key=probability, reverse=True): stable, equal keys keep their order
RECURSIVE InsertByProbability(_, _)
InsertByProbability(sorted, o) ==
    IF sorted = <<>> THEN <<o>>
    ELSE IF FLess(Head(sorted).probability, o.probability) THEN <<o>> \o sorted
    ELSE <<Head(sorted)>> \o InsertByProbability(Tail(sorted), o)

RECURSIVE SortByProbability(_, _)
SortByProbability(todo, sorted) ==
    IF todo = <<>> THEN sorted
    ELSE SortByProbability(Tail(todo), InsertByProbability(sorted, Head(todo)))

\* lines 362-370: raw_profit is computed from the candidate's expected_value
RawProfit(candidate) == FSub(candidate.expected_value, FInt(candidate.total_cost))

\* TradeUpCalculator.calculate_detailed_result
CalculateDetailedResult(candidate) ==
    [kind |-> "detailed",
     collection1 |-> Collection1(candidate.collections_used),
     collection2 |-> Collection2(candidate.collections_used),
     split_ratio |-> SplitRatio(InputSkinsList(candidate), candidate.collections_used),
     skins |-> InputSkinsList(candidate),
     total_cost |-> candidate.total_cost,
     average_float |-> AverageFloat(InputSkinsList(candidate)),
     output_skins |-> SortByProbability(candidate.possible_outputs, <<>>),
     expected_output_price |-> candidate.expected_value,
     raw_profit |-> RawProfit(candidate),
     roi_percentage |-> FMul(FDiv(RawProfit(candidate), FInt(candidate.total_cost)),
                             FInt(100)),
     guaranteed_profit |-> candidate.guaranteed_profit # None,
     min_output_price |-> IF candidate.possible_outputs # <<>>
                          THEN MinPrice(candidate.possible_outputs) ELSE 0]

GolfRestricted == MarketHashName("", "MAC-10", "Golf Restricted", "Field-Tested")
GolfClassified == MarketHashName("", "USP-S", "Golf Classified", "Field-Tested")

GolfCounts == {0, 1}

DetailedCatalog(k_golf) ==
    CalculatorCatalog(2, 1)
    \o [i \in 1..k_golf |-> Row("Golf", "Restricted", GolfRestricted, 0, 1000)]
    \o [i \in 1..k_golf |-> Row("Golf", "Classified", GolfClassified, 0, 1000)]

DetailedPricing(echo_out, foxtrot_out) ==
    (GolfRestricted :> 100) @@ (GolfClassified :> 3000)
    @@ CalculatorPricing(echo_out, foxtrot_out, 100)

DetailedMarkets ==
    {BuildMarketData(DetailedCatalog(k_golf), DetailedPricing(echo_out, foxtrot_out)) :
        k_golf \in GolfCounts, echo_out \in {1000, 4000}, foxtrot_out \in {1000, 6000}}

\* the orders in which this process may iterate a set of collection names
DetailedSetOrders ==
    {s \in [1..3 -> {"Echo", "Foxtrot", "Golf"}] : \A i, j \in 1..3 : i # j => s[i] # s[j]}

DetailedInit ==
    /\ StoreInit
    /\ FinderIdle
    /\ call \in [fn : {"find_profitable_tradeups"}, market_data : DetailedMarkets,
                 set_order : DetailedSetOrders, min_profit : {0, 1000},
                 max_input_price : {None}, target_collections : {{}}]
    /\ ret = NoReturn

\* trade_up_finder: result = self.calculator.calculate_detailed_result(candidate)
CalculateDetailedResultCall ==
    /\ call.fn = "find_profitable_tradeups"
    /\ ret.done
    /\ \E i \in 1..Len(ret.value) :
          /\ call' = [fn |-> "calculate_detailed_result", candidate |-> ret.value[i]]
          /\ ret' = Returned(CalculateDetailedResult(ret.value[i]))
    /\ UNCHANGED <<storeVars, finderVars, clientVars>>

DetailedNext == FindProfitableTradeupsCall \/ CalculateDetailedResultCall

SpecDetailed == DetailedInit /\ [][DetailedNext]_vars

(***************************************************************************)
(* Specification SpecPricing: the in-memory price cache of a               *)
(* RuntimePricingClient under fetch_prices_for_items, force_refresh_cache, *)
(* get_cache_stats and the passing of time.  Time is in minutes.           *)
(***************************************************************************)
CACHE_MINUTES == 30

MaxMinutes == 80
TickMinutes == 10

PricingNames == {N_AlphaIn, N_AlphaOne}

PriceTables == [PricingNames -> {None, 840}]

EmptyCache == [n \in PricingNames |-> None]

\* RuntimePricingClient.__init__; last_load is the time of the last load that
\* filled _price_cache, kept for the properties
NewPricingClient ==
    [price_cache |-> EmptyCache, cache_timestamp |-> None, now |-> 0, last_load |-> None]

\* what the request of _load_all_prices comes to
LoadOutcomes ==
    {[kind |-> "ok", data |-> t] : t \in PriceTables}
    \cup {[kind |-> "status", data |-> EmptyCache], [kind |-> "error", data |-> EmptyCache]}

\* _load_all_prices: a status other than 200 returns and an exception is logged, both
\* before _price_cache.clear()
LoadAllPrices(client, outcome) ==
    IF outcome.kind = "ok"
    THEN [client EXCEPT !.price_cache = outcome.data, !.last_load = client.now]
    ELSE client

NeedsRefresh(client) ==
    \/ client.cache_timestamp = None
    \/ client.now - client.cache_timestamp > CACHE_MINUTES
    \/ client.price_cache = EmptyCache

\* _ensure_price_cache_loaded
EnsurePriceCacheLoaded(client, outcome) ==
    IF NeedsRefresh(client)
    THEN [LoadAllPrices(client, outcome) EXCEPT !.cache_timestamp = client.now]
    ELSE client

\* the prices dict of fetch_prices_for_items
PricesFor(price_cache, item_names) ==
    [n \in PricingNames |-> IF n \in item_names THEN price_cache[n] ELSE None]

\* force_refresh_cache
ForceRefreshCache(client, outcome) ==
    [LoadAllPrices(client, outcome) EXCEPT !.cache_timestamp = client.now]

\* get_cache_stats
GetCacheStats(client) ==
    [cached_items |-> Cardinality({n \in PricingNames : client.price_cache[n] # None}),
     cache_age |-> IF client.cache_timestamp # None
                   THEN client.now - client.cache_timestamp ELSE None,
     cache_valid |-> /\ client.cache_timestamp # None
                     /\ client.now - client.cache_timestamp < CACHE_MINUTES]

PricingInit ==
    /\ StoreInit
    /\ FinderAtRest
    /\ rate_limiter = NoLimiter
    /\ call = NoCall
    /\ ret = NoReturn
    /\ pricing_client = NewPricingClient

FetchPricesForItemsCall ==
    /\ \E outcome \in LoadOutcomes, item_names \in {PricingNames, {N_AlphaIn}} :
          /\ pricing_client' = EnsurePriceCacheLoaded(pricing_client, outcome)
          /\ call' = [fn |-> "fetch_prices_for_items", item_names |-> item_names,
                      at |-> pricing_client.now]
          /\ ret' = Returned(PricesFor(pricing_client'.price_cache, item_names))
    /\ UNCHANGED <<storeVars, finderVars, rate_limiter>>

ForceRefreshCacheCall ==
    /\ \E outcome \in LoadOutcomes :
          pricing_client' = ForceRefreshCache(pricing_client, outcome)
    /\ call' = [fn |-> "force_refresh_cache", at |-> pricing_client.now]
    /\ ret' = Returned(None)
    /\ UNCHANGED <<storeVars, finderVars, rate_limiter>>

GetCacheStatsCall ==
    /\ call' = [fn |-> "get_cache_stats", at |-> pricing_client.now]
    /\ ret' = Returned(GetCacheStats(pricing_client))
    /\ UNCHANGED <<storeVars, finderVars, clientVars>>

PricingTick ==
    /\ pricing_client.now + TickMinutes <= MaxMinutes
    /\ pricing_client' = [pricing_client EXCEPT !.now = @ + TickMinutes]
    /\ UNCHANGED <<storeVars, callVars, finderVars, rate_limiter>>

PricingNext ==
    FetchPricesForItemsCall \/ ForceRefreshCacheCall \/ GetCacheStatsCall \/ PricingTick

SpecPricing == PricingInit /\ [][PricingNext]_vars

\* C2: either client accepts a quote exactly when the authoritative source
\* has a price s, s is within the bounds of the rarity and the quote differs
\* from s by at most the tolerance; what it returns then is s.
Acceptable(price, s, rarity, tolerance_percent) ==
    /\ s # None
    /\ s >= MIN_PRICE
    /\ s <= MaxPrices(rarity)
    /\ Abs(price - s) * 100 <= tolerance_percent * s

C2_AcceptsIffWithinTolerance ==
    ret.done =>
        /\ (ret.value # None) <=> Acceptable(call.price, call.steam_price, call.rarity,
                                              call.tolerance_percent)
        /\ (ret.value # None => ret.value = call.steam_price)

(***************************************************************************)
(* Claims about the price validator, checked under Spec.                   *)
(***************************************************************************)
Visited(n) == lastOp = "validate_prices" /\ passLog[n].quote # None

Attempted(n) == Visited(n) /\ passLog[n].outcome \in {"accepted", "rejected"}

\* C1: a record that is 'invalid' stays 'invalid' under every step that is
\* not a reset, and a validation pass over it sends no request to Steam and
\* returns no validated price for it.
C1_NegativeCache ==
    [][\A n \in Names :
          (record[n].status = "invalid" /\ lastOp' # "reset_price_validation")
          => /\ record'[n].status = "invalid"
             /\ (lastOp' = "validate_prices"
                   => passLog'[n].requests = 0 /\ passLog'[n].returned = None)]_vars

C1_Witness ==
    \E n \in Names :
        /\ Visited(n)
        /\ passLog[n].prior = "invalid"
        /\ passLog[n].outcome = "skipped_invalid"

\* C3: when Steam gives no price after its retries, or a price below the
\* floor or above the ceiling of the rarity, or a price from which the quote
\* differs by more than the tolerance, the pass leaves the record 'invalid'
\* with no Steam price and returns no validated price for the name.
NotAcceptable(n) ==
    LET s == passLog[n].steam
        q == passLog[n].quote
    IN  \/ s = None
        \/ s < MIN_PRICE
        \/ s > MaxPrices(RarityOf[n])
        \/ Abs(q - s) * 100 > TOLERANCE_PERCENT * s

C3_RejectionPersisted ==
    \A n \in Names :
        (Attempted(n) /\ NotAcceptable(n))
        => /\ record[n].status = "invalid"
           /\ record[n].steam_price = None
           /\ passLog[n].returned = None

\* a rejection caused by timeouts alone
C3_Witness ==
    \E n \in Names :
        /\ Attempted(n)
        /\ passLog[n].steam = None
        /\ passLog[n].requests = RETRIES
        /\ record[n].status = "invalid"

\* C10: a pass that finds a 'valid' record whose last check is older than
\* the freshness window queries Steam again and does not answer from the
\* stored price.
Stale(n) ==
    /\ passLog[n].prior = "valid"
    /\ clock - passLog[n].prior_check > FRESH_DAYS

C10_StaleValidIsRevalidated ==
    \A n \in Names :
        (Visited(n) /\ Stale(n))
        => passLog[n].outcome # "cached" /\ passLog[n].requests > 0

(***************************************************************************)
(* Claims about the results of the finder, stated over the results         *)
(* find_profitable_trades has collected (opportunities) and returned.      *)
(***************************************************************************)
Collected == {opportunities[i] : i \in 1..Len(opportunities)}

ReturnedList == IF Sweeping \/ call = NoCall \/ ~ret.done THEN <<>> ELSE ret.value

ReturnedResults == {ReturnedList[i] : i \in 1..Len(ReturnedList)}

OutputsOf(r) == {r.output_skins[i] : i \in 1..Len(r.output_skins)}

\* k_C: the distinct base output items of collection C one rarity above the inputs
DistinctOutputs(collection, input_rarity) ==
    Cardinality({ExtractBaseSkinName(n) :
                    n \in NamesOf(SelectSeq(GetSkinsByCollectionAndRarity(collection,
                                                RarityProgression(input_rarity)),
                                            IsMarketableSkin))})

InputRarity(r) == r.skins[1].rarity

CountOf(r, collection) ==
    IF collection = r.collection1 THEN r.split_ratio[1] ELSE r.split_ratio[2]

\* C4: in a mixed-collection result every output of a contributing
\* collection C has probability (n_C / 10) * (1 / k_C), whatever the split
\* and whether or not the two collections have the same number of outputs.
C4_MixedProbabilityIsShareOverOutputs ==
    \A r \in Collected :
        r.kind = "mixed" =>
            \A o \in OutputsOf(r) :
                FEq(o.probability,
                    Frac(CountOf(r, o.skin.collection),
                         INPUTS_PER_TRADE
                         * DistinctOutputs(o.skin.collection, InputRarity(r))))

C6_SingleProbabilityNotRenormalized ==
    \A r \in Collected :
        r.kind = "single" =>
            \A o \in OutputsOf(r) :
                FEq(o.probability,
                    Frac(1, DistinctOutputs(r.collection1, InputRarity(r))))

\* the row a listed output stands for
RecordName(name) == [name EXCEPT !.extra = ""]

\* C7: every output that counts in the expected value of a returned
\* opportunity has a record marked 'valid' by the Price Validator, in
\* single- and mixed-collection results, also when its price was loaded by
\* initialize().
C7_OnlyValidatedOutputsCount ==
    \A r \in ReturnedResults :
        \A o \in OutputsOf(r) :
            GetPriceValidationStatus(record, RecordName(o.skin.name)).status = "valid"

\* the least an output is worth after the fee exceeds what the inputs cost
MinNetExceedsCost(r) == FLess(FInt(r.total_cost), AfterFee(FInt(r.min_output_price)))

\* C8: a returned opportunity has guaranteed_profit exactly when its
\* lowest-priced output, after the 15% fee, is worth more than total_cost.
C8_GuaranteedProfitIffMinNetAboveCost ==
    \A r \in ReturnedResults : r.guaranteed_profit <=> MinNetExceedsCost(r)

InOrder(a, b) ==
    \/ FLess(b.raw_profit, a.raw_profit)
    \/ FEq(a.raw_profit, b.raw_profit) /\ FLeq(b.roi_percentage, a.roi_percentage)

\* C9: the returned list holds only opportunities whose profit meets
\* min_profit and is ordered by profit descending, equal profits by ROI
\* descending.
C9_FilteredAndSortedByProfitThenRoi ==
    /\ \A r \in ReturnedResults : FLeq(FInt(call.min_profit), r.raw_profit)
    /\ \A i \in 1..(Len(ReturnedList) - 1) : InOrder(ReturnedList[i], ReturnedList[i + 1])

(***************************************************************************)
(* Claims about the sweep of find_profitable_trades.                       *)
(***************************************************************************)
FinderDone ==
    /\ call # NoCall
    /\ call.fn = "find_profitable_trades"
    /\ ret.done

FirstFound(n) ==
    {opportunities[i] : i \in 1..(IF Len(opportunities) < n THEN Len(opportunities) ELSE n)}

EarlyExitState ==
    /\ Sweeping => Len(opportunities) < call.limit
    /\ FinderDone =>
          /\ Len(ret.value) <= call.limit
          /\ Len(opportunities) >= call.limit =>
                /\ Len(ret.value) = call.limit
                /\ ReturnedResults = FirstFound(call.limit)

NothingAfterReturn ==
    FinderDone => UNCHANGED <<record, cached_prices, cursor, skipped, opportunities, ret>>

\* C11: with limit N the sweep goes on only while fewer than N opportunities
\* have been collected; once N are collected it returns exactly those N, never
\* more than N, and after the return no configuration is evaluated and neither
\* the price cache nor the validation store changes.
C11_EarlyExit == []EarlyExitState /\ [][NothingAfterReturn]_vars

\* the sweep returned at the limit with configurations left unevaluated
C11_Witness ==
    /\ FinderDone
    /\ Len(ret.value) = call.limit
    /\ cursor < Len(SweepOrder)
    /\ lastOp # "return"

(***************************************************************************)
(* Claims about float scaling.                                             *)
(***************************************************************************)
Scaled == call.fn = "_calculate_output_float_and_condition" /\ ret.done

\* C12: whatever the input float and the input range (given, missing, empty
\* or inverted), the scaled float lies within the output item's range.
C12_ScaledFloatWithinOutputRange ==
    Scaled =>
        /\ FLeq(FInt(call.output_skin.min_float), ret.value.float)
        /\ FLeq(ret.value.float, FInt(call.output_skin.max_float))

\* an input float outside an empty or inverted input range, or outside the
\* general range when none is given, has been scaled
C12_Witness ==
    /\ Scaled
    /\ \/ call.input_skin = NoSkin /\ call.input_float > FALLBACK_INPUT_MAX
       \/ /\ call.input_skin \notin {NoSkin, SkinWithoutRange}
          /\ call.input_skin.max_float <= call.input_skin.min_float
          /\ call.input_float > call.input_skin.min_float
    /\ call.output_skin.min_float < call.output_skin.max_float

Ingested ==
    /\ call.fn \in {"get_skins_by_collection_and_rarity",
                    "build_market_data_from_comprehensive"}
    /\ ret.done

InvertedRows ==
    {i \in 1..Len(ret.value) :
        IF call.fn = "get_skins_by_collection_and_rarity"
        THEN ret.value[i].min_float > ret.value[i].max_float
        ELSE ret.value[i].float_min > ret.value[i].float_max}

\* C14: a row whose float range has float_min > float_max is rejected on
\* entry: neither the rows read by get_skins_by_collection_and_rarity nor
\* the Skin objects built by build_market_data_from_comprehensive hold it.
C14_InvertedRangeRejected == Ingested => InvertedRows = {}

(***************************************************************************)
(* Claims about the items of the results of find_guaranteed_profit_trades. *)
(***************************************************************************)
GuaranteedReturned == call.fn = "find_guaranteed_profit_trades" /\ ret.done

Excluded(name, rarity) == name.tag \in {"StatTrak", "Souvenir"} \/ rarity = "Contraband"

ExcludedItems(r) ==
    {r.skins[i].name : i \in {j \in 1..Len(r.skins) :
                                 Excluded(r.skins[j].name, r.skins[j].rarity)}}
    \cup {r.output_skins[i].skin.name :
             i \in {j \in 1..Len(r.output_skins) :
                       Excluded(r.output_skins[j].skin.name, r.output_skins[j].skin.rarity)}}

\* C15: no StatTrak, Souvenir or Contraband item is an input or an output
\* of a returned result, here of find_guaranteed_profit_trades.
C15_NoExcludedItemInResults ==
    GuaranteedReturned => \A i \in 1..Len(ret.value) : ExcludedItems(ret.value[i]) = {}

(***************************************************************************)
(* Claims about the candidates of TradeUpCalculator.                       *)
(***************************************************************************)
CalculatorReturned == call.fn = "find_profitable_tradeups" /\ ret.done

UpgradeOf(rarity) ==
    (CHOOSE i \in 1..Len(RARITY_MAPPING) : RARITY_MAPPING[i].from = rarity) 

\* k_C of the candidate's output rarity in the calculator's market data
OutputCountOf(collection_name, candidate) ==
    Len(SkinsByRarity(call.market_data, collection_name,
                      RARITY_MAPPING[UpgradeOf(candidate.input_skins[1].rarity)].to))

EmptyContributors(candidate) ==
    {candidate.collections_used[i] :
        i \in {j \in 1..Len(candidate.collections_used) :
                  OutputCountOf(candidate.collections_used[j], candidate) = 0}}

\* C16: a configuration one of whose contributing collections has no
\* output of the next rarity (k_C = 0) yields no opportunity: no candidate
\* of the calculator draws inputs from such a collection.
C16_EmptyCollectionYieldsNothing ==
    CalculatorReturned => \A i \in 1..Len(ret.value) : EmptyContributors(ret.value[i]) = {}

(***************************************************************************)
(* Claims about a sweep in which the pricing of a configuration raises.    *)
(***************************************************************************)
\* the step that logs an error drops the configuration at the cursor alone
FailureStep ==
    lastOp' = "error" =>
        /\ cursor' = cursor + 1
        /\ ~ret'.done
        /\ UNCHANGED <<opportunities, skipped, cached_prices>>

\* the sweep leaves a position for the next one, for the next primary when
\* it skips a result for the offset, or by returning
SweepStep ==
    Sweeping =>
        \/ cursor' = cursor + 1
        \/ cursor' = NextPrimary(cursor) /\ skipped' = skipped + 1
        \/ ret'.done /\ ret'.value = Take(SortByExpectedProfit(opportunities'), call.limit)
        \/ UNCHANGED <<cursor, ret>>

\* C17: an exception raised while one configuration is priced removes that
\* configuration only: the error is logged, the results found so far are
\* kept, the sweep goes on with the next configuration (after a single
\* configuration, the mixed configurations of the same primary) and
\* returns what it found.
C17_FailureRemovesOneConfiguration == [][FailureStep /\ SweepStep]_vars

\* a single configuration raised, and a mixed configuration of the same
\* primary collection is among the results returned
C17_Witness ==
    /\ ret.done
    /\ errors # <<>>
    /\ SweepOrder[errors[1]].kind = "single"
    /\ \E i \in 1..Len(ret.value) :
          /\ ret.value[i].kind = "mixed"
          /\ ret.value[i].collection1 = SweepOrder[errors[1]].primary

(***************************************************************************)
(* Claims about the price ceiling of the inputs.                           *)
(***************************************************************************)
InputsAbove(r, max_input_price) ==
    {i \in 1..Len(r.skins) : r.skins[i].price > max_input_price}

\* C18: when max_input_price is given, every input of every returned
\* opportunity has a unit price, as recorded on the input and used in
\* total_cost, of at most max_input_price.
C18_InputsWithinMaxInputPrice ==
    (FinderDone /\ call.max_input_price # None) =>
        \A r \in ReturnedResults : InputsAbove(r, call.max_input_price) = {}

(***************************************************************************)
(* Claims about concurrent validation passes.                              *)
(***************************************************************************)
RECURSIVE LookupsBy(_, _)
LookupsBy(ids, name) ==
    IF ids = {} THEN 0
    ELSE passes[CHOOSE p \in ids : TRUE].lookups[name]
         + LookupsBy(ids \ {CHOOSE p \in ids : TRUE}, name)

\* C19: two validation passes interleaved at their await points over the
\* same unvalidated item ask Steam for its price at most once between them.
C19_AtMostOneLookupPerItem == \A n \in Names : LookupsBy(PassIds, n) <= 1

(***************************************************************************)
(* Claims about what get_price_validation_status reads.                    *)
(***************************************************************************)
StatusRead == call.fn = "get_price_validation_status" /\ ret.done

\* C20: whatever the order of the calls of mark_price_validation_status,
\* mark_price_discrepancy and mark_price_valid, the status, price and
\* discrepancy that get_price_validation_status reads were written by one
\* attempt: 'invalid' comes with no price left over from an earlier attempt,
\* 'valid' comes with the price of the attempt that set it.
C20_ReadIsOfOneAttempt ==
    StatusRead =>
        /\ ret.value.status = "invalid" => ret.value.steam_price = None
        /\ ret.value.status = "valid" =>
              [status |-> "valid", steam_price |-> ret.value.steam_price,
               discrepancy_percent |-> ret.value.discrepancy_percent] \in ValidationAttempts

(***************************************************************************)
(* Claims about the transitions of a record's status.                      *)
(***************************************************************************)
AllowedTransition(old, new) ==
    \/ old = new
    \/ old = "unvalidated" /\ new \in {"valid", "invalid"}
    \/ new = "unvalidated"

\* C21: across validation passes, direct status writes and resets, the status
\* of a record changes only from unvalidated to valid or invalid and from
\* anything to unvalidated (valid never becomes invalid directly, invalid
\* never becomes valid without a reset), and a reset leaves every record
\* with no price, no discrepancy and no timestamp.
C21_StatusTransitions ==
    [][/\ \A n \in Names : AllowedTransition(record[n].status, record'[n].status)
       /\ lastOp' = "reset_price_validation" => \A n \in Names : record'[n] = Unvalidated]_vars

(***************************************************************************)
(* Claims about RateLimiter.acquire.                                       *)
(***************************************************************************)
ReleasesWithin(released, from, time_window) ==
    Cardinality({i \in 1..Len(released) :
                    from <= released[i] /\ released[i] < from + time_window})

\* C22: whatever the sequence of acquire() calls, of one caller or of several
\* coroutines interleaved at the sleep, the number of callers released from
\* acquire() within any interval of time_window seconds is at most
\* max_requests.
C22_AtMostMaxRequestsPerWindow ==
    \A from \in 0..MaxTime :
        ReleasesWithin(rate_limiter.released, from, rate_limiter.limiter.time_window)
            <= rate_limiter.limiter.max_requests

(***************************************************************************)
(* Claims about get_steam_market_price.                                    *)
(***************************************************************************)
LastReply == call.replies[Len(pricing_client.requests)]

GotPrice ==
    /\ pricing_client.requests # <<>>
    /\ LastReply.kind \in {"median", "lowest"}

SteamCallIsBounded ==
    /\ Len(pricing_client.requests) <= call.retries
    /\ \A i \in 1..Len(pricing_client.requests) :
          pricing_client.requests[i].attempt > 0 =>
              pricing_client.requests[i].waited >= 2 ^ pricing_client.requests[i].attempt
    /\ ret.done => /\ "raised" \notin DOMAIN ret
                   /\ ret.value = IF GotPrice THEN LastReply.price ELSE None

\* C23: get_steam_market_price always returns, after at most `retries`
\* requests whatever the outcomes of the requests are; before every attempt
\* after the first it has waited at least 2^attempt seconds; it returns None
\* once the last attempt has failed and never raises.
C23_BoundedRetries == []SteamCallIsBounded /\ <>(ret.done)

C23_Witness ==
    /\ call.fn = "get_steam_market_price"
    /\ call.retries = RETRIES
    /\ ret.done
    /\ Len(pricing_client.requests) = RETRIES
    /\ ret.value = None
    /\ \E i \in 1..RETRIES : call.replies[i].kind = "429"
    /\ \E i \in 1..RETRIES : call.replies[i].kind = "exception"

(***************************************************************************)
(* Claims about paging with offset.                                        *)
(***************************************************************************)
SkipsForOffset == Sweeping /\ skipped' = skipped + 1

\* C24: find_profitable_trades(limit=1, offset=k) returns the (k+1)-th
\* qualifying opportunity of the enumeration order: a result skipped for the
\* offset leaves no other configuration unexamined, the sweep goes on with
\* the configuration that follows the skipped one.
C24_SkipLeavesNothingUnexamined == [][SkipsForOffset => cursor' = cursor + 1]_vars

(***************************************************************************)
(* Claims about the fallback input range.                                  *)
(***************************************************************************)
\* C26: when the input item's own float range is unavailable one and the
\* same fallback range is used: a call without input item returns the scaled
\* float and the condition that the call with an input item carrying no
\* min_float/max_float returns, for every input float and output range.
C26_OneFallbackRange ==
    (call.fn = "_calculate_output_float_and_condition" /\ ret.done
        /\ call.input_skin = NoSkin)
    => ret.value = CalculateOutputFloatAndCondition(FInt(call.input_float),
                                                    call.output_skin, SkinWithoutRange)

(***************************************************************************)
(* Claims about wear variants of output items.                             *)
(***************************************************************************)
WearReturned ==
    /\ call.fn \in {"_calculate_single_collection_tradeup",
                    "_calculate_mixed_collection_tradeup"}
    /\ ret.done
    /\ ret.value # NoResult

BaseItem(name) == <<name.tag, name.weapon, name.skin>>

\* the number of distinct base items of a collection at the output rarity
DistinctBases(table, collection) ==
    Cardinality({BaseItem(table[i].market_hash_name) :
                    i \in {j \in 1..Len(table) : /\ table[j].collection = collection
                                                 /\ table[j].rarity = "Restricted"}})

ShareOf(result, table, collection) ==
    IF collection = result.collection1
    THEN Frac(result.split_ratio[1],
              result.split_ratio[1] * DistinctBases(table, result.collection1)
              + (IF result.collection2 = "" THEN 0
                 ELSE result.split_ratio[2] * DistinctBases(table, result.collection2)))
    ELSE Frac(result.split_ratio[2],
              result.split_ratio[1] * DistinctBases(table, result.collection1)
              + result.split_ratio[2] * DistinctBases(table, result.collection2))

\* C25: in a returned opportunity no two output candidates share a base name,
\* and the probability of each candidate is that of its collection with k_C
\* the number of distinct base names of the collection at the output rarity.
C25_WearVariantsCountOnce ==
    WearReturned =>
        /\ \A i, j \in 1..Len(ret.value.output_skins) :
              i # j => BaseItem(ret.value.output_skins[i].skin.name)
                       # BaseItem(ret.value.output_skins[j].skin.name)
        /\ \A i \in 1..Len(ret.value.output_skins) :
              FEq(ret.value.output_skins[i].probability,
                  ShareOf(ret.value, call.table, ret.value.output_skins[i].skin.collection))

\* the name of an output candidate's base item in its predicted wear condition
PredictedName(name) == [name EXCEPT !.wear = name.extra, !.extra = ""]

\* C27: in a single-collection opportunity, an output whose base item has a
\* cached price in the predicted wear condition is priced at that price.
C27_PredictedConditionPriceUsed ==
    (WearReturned /\ call.fn = "_calculate_single_collection_tradeup") =>
        \A i \in 1..Len(ret.value.output_skins) :
            Truthy(CachedGet(cached_prices, PredictedName(ret.value.output_skins[i].skin.name)))
            => ret.value.output_skins[i].skin.price
               = CachedGet(cached_prices, PredictedName(ret.value.output_skins[i].skin.name))

(***************************************************************************)
(* Claims about the results of TradeUpCalculator.calculate_detailed_result.*)
(***************************************************************************)
DetailedReturned == call.fn = "calculate_detailed_result" /\ ret.done

CollectionsOfInputs(r) == {r.skins[i].collection : i \in 1..Len(r.skins)}

InputsFrom(r, collection_name) ==
    Cardinality({i \in 1..Len(r.skins) : r.skins[i].collection = collection_name})

\* what C28 states of one opportunity r
TenInputsAsSplit(r) ==
    /\ Len(r.skins) = INPUTS_PER_TRADE
    /\ Cardinality(CollectionsOfInputs(r)) \in {1, 2}
    /\ r.split_ratio[1] + r.split_ratio[2] = INPUTS_PER_TRADE
    /\ r.split_ratio[1] = InputsFrom(r, r.collection1)
    /\ r.split_ratio[2] = InputsFrom(r, r.collection2)
    /\ r.total_cost = SumPrices(r.skins)

\* C28: an opportunity has exactly ten inputs from one or two collections, its
\* split_ratio counts sum to ten and equal the numbers of inputs from
\* collection1 and collection2, and total_cost is the sum of the input prices.
C28_TenInputsAsSplit == DetailedReturned => TenInputsAsSplit(ret.value)

\* C30: the result of calculate_detailed_result has expected_output_price equal
\* to the probability-weighted sum of its output prices, and raw_profit equal
\* to that sum minus total_cost.
C30_CostSubtractedOnce ==
    DetailedReturned =>
        /\ FEq(ret.value.expected_output_price, SumExpected(ret.value.output_skins))
        /\ FEq(ret.value.raw_profit,
               FSub(SumExpected(ret.value.output_skins), FInt(ret.value.total_cost)))

(***************************************************************************)
(* Claims about the price cache of RuntimePricingClient.                   *)
(***************************************************************************)
LoadedWithin(client, at) ==
    /\ client.last_load # None
    /\ at - client.last_load <= CACHE_MINUTES

\* C29: a price returned by fetch_prices_for_items was put into the cache by a
\* successful load at most 30 minutes before the call, and get_cache_stats
\* reports cache_valid only when such a load exists.
C29_ServedPricesAreFresh ==
    /\ (call.fn = "fetch_prices_for_items" /\ ret.done) =>
          \A n \in PricingNames :
              ret.value[n] # None => LoadedWithin(pricing_client, call.at)
    /\ (call.fn = "get_cache_stats" /\ ret.done) =>
          (ret.value.cache_valid => LoadedWithin(pricing_client, call.at))

====
